---- MODULE Spec2Model ----
(***************************************************************************)
(* A model of the KYC workflow of EFundAnalysis                            *)
(* (core/kyc/workflows/kyc_workflow.py), of the response parser it uses    *)
(* (core/util/json_util.py) and of the customer models it builds           *)
(* (core/kyc/models/customer.py).                                          *)
(*                                                                         *)
(* Text is a sequence of units.  A unit is a brace, FENCE (three           *)
(* backticks), the word json, white space (" " or a newline), a piece of   *)
(* prose, or a complete JSON lexeme (one member "key": value of an object, *)
(* or a scalar).                                                           *)
(***************************************************************************)
EXTENDS Integers, Sequences, FiniteSets, TLC

\* The largest number of fragments one model stream delivers.
MaxFragments == 2

-----------------------------------------------------------------------------
(* Python values *)

Null == [t |-> "null"]
Num(n) == [t |-> "num", n |-> n]
Str(s) == [t |-> "str", s |-> s]
List(items) == [t |-> "list", items |-> items]

\* The white-space units.
Space == {" ", "\n"}

\* The one element of a singleton set.  In { e : x \in {v} } the value v is
\* computed once and named x in e.
the(S) == CHOOSE x \in S : TRUE

\* str.strip() on a text: leading and trailing white space removed.
strip(s) ==
    the({the({IF kept = {} THEN <<>>
              ELSE SubSeq(t, CHOOSE i \in kept : \A j \in kept : i <= j,
                             CHOOSE i \in kept : \A j \in kept : i >= j) :
                 kept \in {{i \in 1..Len(t) : t[i] \notin Space}}}) :
            t \in {s}})

\* "".join(parts)
RECURSIVE join(_)
join(parts) == IF parts = <<>> THEN <<>> ELSE Head(parts) \o join(Tail(parts))

\* str.find(u): the first index of unit u in s, 0 when there is none.
find(s, u) ==
    IF \E i \in 1..Len(s) : s[i] = u
    THEN CHOOSE i \in 1..Len(s) : s[i] = u /\ \A j \in 1..(i - 1) : s[j] # u
    ELSE 0

-----------------------------------------------------------------------------
(* json.loads *)

\* The members a model may write, each with the key and the value it decodes to.
MemberOf ==
    [u \in {"age:35", "age:17", "city:Beijing", "ms:married", "ms:bad",
            "es:retired", "inc:500000", "dep:1",
            "assets:300000", "loss:20", "loss:150", "horizon:10",
            "rt:aggressive", "rt:bad", "goals:[retire]", "types:[funds]",
            "liq:high",
            "score:72", "score:140", "score:null", "level:balanced",
            "factors:[age]", "notes:ok"} |->
        CASE u = "age:35" -> [k |-> "age", v |-> Num(35)]
          [] u = "age:17" -> [k |-> "age", v |-> Num(17)]
          [] u = "city:Beijing" -> [k |-> "city", v |-> Str("Beijing")]
          [] u = "ms:married" -> [k |-> "marital_status", v |-> Str("married")]
          [] u = "ms:bad" -> [k |-> "marital_status", v |-> Str("engaged")]
          [] u = "es:retired" -> [k |-> "employment_status", v |-> Str("retired")]
          [] u = "inc:500000" -> [k |-> "annual_income", v |-> Num(500000)]
          [] u = "dep:1" -> [k |-> "dependents", v |-> Num(1)]
          [] u = "assets:300000" -> [k |-> "investable_assets", v |-> Num(300000)]
          [] u = "loss:20" -> [k |-> "max_loss_tolerance", v |-> Num(20)]
          [] u = "loss:150" -> [k |-> "max_loss_tolerance", v |-> Num(150)]
          [] u = "horizon:10" -> [k |-> "investment_horizon_years", v |-> Num(10)]
          [] u = "rt:aggressive" -> [k |-> "risk_tolerance", v |-> Str("aggressive")]
          [] u = "rt:bad" -> [k |-> "risk_tolerance", v |-> Str("reckless")]
          [] u = "goals:[retire]" ->
                [k |-> "investment_goals", v |-> List(<<"retire">>)]
          [] u = "types:[funds]" ->
                [k |-> "preferred_investment_types", v |-> List(<<"funds">>)]
          [] u = "liq:high" -> [k |-> "liquidity_needs", v |-> Str("high")]
          [] u = "score:72" -> [k |-> "risk_score", v |-> Num(72)]
          [] u = "score:140" -> [k |-> "risk_score", v |-> Num(140)]
          [] u = "score:null" -> [k |-> "risk_score", v |-> Null]
          [] u = "level:balanced" -> [k |-> "risk_level", v |-> Str("balanced")]
          [] u = "factors:[age]" -> [k |-> "risk_factors", v |-> List(<<"age">>)]
          [] u = "notes:ok" -> [k |-> "suitability_notes", v |-> Str("ok")]]

MemberUnits == DOMAIN MemberOf

\* A member whose value is a string is written unit by unit: the key with the
\* quote that opens the string, the string's content, the quote that closes it.
\* Any unit but a quote and a line break may stand in the content.
StringKeyOf == [u \in {"q:"} |-> "q"]

StringKeyUnits == DOMAIN StringKeyOf

Quote == "\""

\* A string value read unit by unit.
Chars(units) == [t |-> "str", chars |-> units]

\* The index of the first quote at or after unit i, 0 when a line break comes
\* first or no quote comes.
RECURSIVE closing_quote(_, _)
closing_quote(t, i) ==
    IF i > Len(t) \/ t[i] = "\n" THEN 0
    ELSE IF t[i] = Quote THEN i
    ELSE closing_quote(t, i + 1)

\* The members of an object whose inside is t, read from unit i on: the keys
\* with their values in the order written, or ok = FALSE where t is no
\* sequence of members.
RECURSIVE object_members(_, _)
object_members(t, i) ==
    IF i > Len(t) THEN [ok |-> TRUE, ms |-> <<>>]
    ELSE IF t[i] \in Space THEN object_members(t, i + 1)
    ELSE IF t[i] \in MemberUnits
    THEN the({[ok |-> rest.ok, ms |-> <<MemberOf[t[i]]>> \o rest.ms] :
                 rest \in {object_members(t, i + 1)}})
    ELSE IF t[i] \in StringKeyUnits
    THEN the({IF j = 0 THEN [ok |-> FALSE, ms |-> <<>>]
              ELSE the({[ok |-> rest.ok,
                         ms |-> <<[k |-> StringKeyOf[t[i]],
                                   v |-> Chars(SubSeq(t, i + 1, j - 1))]>>
                                \o rest.ms] :
                           rest \in {object_members(t, j + 1)}}) :
                 j \in {closing_quote(t, i + 1)}})
    ELSE [ok |-> FALSE, ms |-> <<>>]

\* The dict an object's members decode to; a repeated key keeps its last value.
members_dict(ms) ==
    [k \in {ms[i].k : i \in 1..Len(ms)} |->
        ms[CHOOSE i \in 1..Len(ms) :
              /\ ms[i].k = k
              /\ \A j \in (i + 1)..Len(ms) : ms[j].k # k].v]

JSONDecodeError == [kind |-> "JSONDecodeError"]

\* json.loads: a scalar, an empty list, or an object of members; white space
\* around and between the tokens is skipped; anything else does not decode.
json_loads(s) ==
    the({IF t = <<"null">> THEN [kind |-> "value", value |-> Null]
         ELSE IF t = <<"7">> THEN [kind |-> "value", value |-> Num(7)]
         ELSE IF t = <<"[]">> THEN [kind |-> "value", value |-> List(<<>>)]
         ELSE IF Len(t) >= 2 /\ t[1] = "{" /\ t[Len(t)] = "}"
              THEN the({IF members.ok
                        THEN [kind |-> "value",
                              value |-> [t |-> "dict", d |-> members_dict(members.ms)]]
                        ELSE JSONDecodeError :
                           members \in {object_members(SubSeq(t, 2, Len(t) - 1), 1)}})
         ELSE JSONDecodeError : t \in {strip(s)}})

-----------------------------------------------------------------------------
(* core/util/json_util.py *)

\* The indices of the fences of three backticks in a text.
fences(s) == {i \in 1..Len(s) : s[i] = "FENCE"}

\* re.search of the pattern fence, optional json, white space, lazy group,
\* white space, fence (re.DOTALL): whether it matches.  The lazy group ends at
\* the first fence after the opening one, so two fences are needed.
code_block_match(s) == Cardinality(fences(s)) >= 2

\* A search whose pattern has no optional json tag: the tag stays in the group.
code_block_group_keeps_tag(s) ==
    the({the({strip(SubSeq(s, open + 1,
                           (CHOOSE i \in f \ {open} : \A j \in f \ {open} : i <= j) - 1)) :
                 open \in {CHOOSE i \in f : \A j \in f : i <= j}}) :
            f \in {fences(s)}})

\* group(1) of that match, stripped: what lies between the first two fences,
\* without the optional json tag and the white space around the content.
code_block_group(s) ==
    the({the({the({strip(IF inner # <<>> /\ Head(inner) = "json"
                         THEN Tail(inner) ELSE inner) :
                      inner \in {SubSeq(s, open + 1,
                                        (CHOOSE i \in f \ {open} :
                                            \A j \in f \ {open} : i <= j) - 1)}}) :
                 open \in {CHOOSE i \in f : \A j \in f : i <= j}}) :
            f \in {fences(s)}})

\* The loop over response_text[start_idx:]: the brace count after the units
\* i..n, and the index after the brace that closed the span (0 when none did).
RECURSIVE brace_scan(_, _, _)
brace_scan(s, i, brace_count) ==
    IF i > Len(s) THEN [brace_count |-> brace_count, end_idx |-> 0]
    ELSE IF s[i] = "{" THEN brace_scan(s, i + 1, brace_count + 1)
    ELSE IF s[i] = "}"
         THEN IF brace_count - 1 = 0
              THEN [brace_count |-> 0, end_idx |-> i]
              ELSE brace_scan(s, i + 1, brace_count - 1)
    ELSE brace_scan(s, i + 1, brace_count)

\* A selection that scans for braces first and looks for a code block only
\* when no balanced span was found.
selected_braces_first(response_text) ==
    the({IF start_idx # 0 /\ brace_scan(response_text, start_idx, 0).brace_count = 0
         THEN strip(SubSeq(response_text, start_idx,
                           brace_scan(response_text, start_idx, 0).end_idx))
         ELSE IF code_block_match(response_text)
         THEN code_block_group(response_text)
         ELSE <<>> :
            start_idx \in {find(response_text, "{")}})

\* What the search for a code block and the brace scan select: json_str before
\* the fallback to the whole text, empty when nothing was selected.
selected(response_text) ==
    IF code_block_match(response_text)
    THEN code_block_group(response_text)
    ELSE the({IF start_idx = 0 THEN <<>>
              ELSE the({IF scan.brace_count = 0
                        THEN strip(SubSeq(response_text, start_idx, scan.end_idx))
                        ELSE <<>> :
                           scan \in {brace_scan(response_text, start_idx, 0)}}) :
                 start_idx \in {find(response_text, "{")}})

\* The substring extract_json_from_response hands to json.loads.
json_str_of(response_text) ==
    the({IF json_str = <<>> THEN strip(response_text) ELSE strip(json_str) :
            json_str \in {selected(response_text)}})

\* A parser that returns an empty dict where json.loads raised.
extract_json_or_empty(response_text) ==
    IF json_loads(json_str_of(response_text)) = JSONDecodeError
    THEN [kind |-> "value", value |-> [t |-> "dict", d |-> <<>>]]
    ELSE json_loads(json_str_of(response_text))

\* extract_json_from_response: the decoded value, or the JSONDecodeError raised.
extract_json_from_response(response_text) ==
    the({json_loads(json_str_of(text)) : text \in {response_text}})

-----------------------------------------------------------------------------
(* core/kyc/models/customer.py *)

MaritalStatus == {"single", "married", "divorced", "widowed", "other"}
EmploymentStatus ==
    {"employed", "self_employed", "unemployed", "retired", "student", "other"}
RiskTolerance == {"conservative", "moderate", "balanced", "aggressive"}

\* Enum(value): whether the value names a member (ValueError otherwise).
IsMember(enum, v) == v.t = "str" /\ v.s \in enum

IsNumber(v) == v.t = "num"
IsOptionalStr(v) == v.t \in {"null", "str"}
IsStrList(v) == v.t = "list"

\* The field constraints of BasicInfo.
BasicInfoValid(b) ==
    /\ IsNumber(b.age) /\ b.age.n >= 18 /\ b.age.n <= 100
    /\ b.city.t = "str" /\ b.city.s # ""
    /\ IsMember(MaritalStatus, b.marital_status)
    /\ IsMember(EmploymentStatus, b.employment_status)
    /\ \/ b.annual_income = Null
       \/ IsNumber(b.annual_income) /\ b.annual_income.n >= 0
    /\ IsOptionalStr(b.education_level)
    /\ IsNumber(b.dependents) /\ b.dependents.n >= 0

\* The field constraints of InvestmentPreference.
InvestmentPreferenceValid(p) ==
    /\ IsNumber(p.investable_assets) /\ p.investable_assets.n >= 0
    /\ IsNumber(p.max_loss_tolerance)
    /\ p.max_loss_tolerance.n >= 0 /\ p.max_loss_tolerance.n <= 100
    /\ IsNumber(p.investment_horizon_years) /\ p.investment_horizon_years.n >= 1
    /\ IsMember(RiskTolerance, p.risk_tolerance)
    /\ IsStrList(p.investment_goals)
    /\ IsStrList(p.preferred_investment_types)
    /\ IsOptionalStr(p.liquidity_needs)

\* The field constraints of RiskProfile.
RiskProfileValid(r) ==
    /\ IsNumber(r.risk_score) /\ r.risk_score.n >= 0 /\ r.risk_score.n <= 100
    /\ IsMember(RiskTolerance, r.risk_level)
    /\ IsStrList(r.risk_factors)
    /\ IsOptionalStr(r.suitability_notes)

\* CustomerProfile(...).model_dump(): the profile as a dict, the nested models
\* dumped field by field.
CustomerProfile(customer_id, basic_info, investment_preference, risk_profile) ==
    [customer_id |-> customer_id,
     basic_info |-> [f \in DOMAIN basic_info |-> basic_info[f]],
     investment_preference |->
        [f \in DOMAIN investment_preference |-> investment_preference[f]],
     risk_profile |-> [f \in DOMAIN risk_profile |-> risk_profile[f]],
     additional_notes |-> Null,
     collected_at |-> Null]

-----------------------------------------------------------------------------
(* core/kyc/workflows/kyc_workflow.py: the events *)

StartEvent(user_input, customer_id) ==
    [type |-> "StartEvent", user_input |-> user_input, customer_id |-> customer_id]

BasicInfoEvent(basic_info, customer_id, user_input) ==
    [type |-> "BasicInfoEvent", basic_info |-> basic_info,
     customer_id |-> customer_id, user_input |-> user_input]

InvestmentPreferenceEvent(basic_info, investment_preference, customer_id, user_input) ==
    [type |-> "InvestmentPreferenceEvent", basic_info |-> basic_info,
     investment_preference |-> investment_preference,
     customer_id |-> customer_id, user_input |-> user_input]

RiskAssessmentEvent(basic_info, investment_preference, risk_profile, customer_id) ==
    [type |-> "RiskAssessmentEvent", basic_info |-> basic_info,
     investment_preference |-> investment_preference,
     risk_profile |-> risk_profile, customer_id |-> customer_id]

StreamingChunkEvent(chunk, step_name, is_complete) ==
    [type |-> "StreamingChunkEvent", chunk |-> chunk, step_name |-> step_name,
     is_complete |-> is_complete]

StopEvent(result) == [type |-> "StopEvent", result |-> result]

\* The steps, in the order the class defines them.
StepNames ==
    <<"collect_basic_info", "collect_investment_preferences",
      "assess_risk_profile", "generate_customer_profile">>

Steps == {StepNames[i] : i \in 1..Len(StepNames)}

\* The event type each step is declared to take (its ev parameter).
Accepts(step_name) ==
    CASE step_name = "collect_basic_info" -> "StartEvent"
      [] step_name = "collect_investment_preferences" -> "BasicInfoEvent"
      [] step_name = "assess_risk_profile" -> "InvestmentPreferenceEvent"
      [] step_name = "generate_customer_profile" -> "RiskAssessmentEvent"

\* getattr(ev, name, default)
getattr(e, name, default) == IF name \in DOMAIN e THEN e[name] ELSE default

-----------------------------------------------------------------------------
(* The language model: what its streams may deliver *)

\* What a stream of each step may deliver: the fragments (token.delta, empty
\* for a token without text), and whether the stream raises after them instead
\* of ending.
AllScripts(step_name) ==
    CASE step_name = "collect_basic_info" ->
           {[frags |-> <<<<"{", "age:35", "city:Beijing">>,
                         <<"ms:married", "es:retired", "inc:500000", "dep:1", "}">>>>,
             raises |-> FALSE],
            [frags |-> <<<<"{", "}">>>>, raises |-> FALSE],
            [frags |-> <<<<"x", "{", "age:17", "city:Beijing", "}">>>>, raises |-> FALSE],
            [frags |-> <<<<"x">>>>, raises |-> FALSE],
            [frags |-> <<>>, raises |-> FALSE],
            [frags |-> <<<<>>, <<"[]">>>>, raises |-> FALSE],
            [frags |-> <<<<"{">>, <<"age:35", "ms:bad">>, <<"}">>>>, raises |-> FALSE],
            [frags |-> <<>>, raises |-> TRUE],
            [frags |-> <<<<"{", "age:35", "city:Beijing">>>>, raises |-> TRUE]}
      [] step_name = "collect_investment_preferences" ->
           {[frags |-> <<<<"FENCE", "json", " ", "{", "assets:300000", "loss:20">>,
                         <<"horizon:10", "rt:aggressive", "goals:[retire]",
                           "types:[funds]", "liq:high", "}", " ", "FENCE">>>>,
             raises |-> FALSE],
            [frags |-> <<<<"{", "assets:300000", "}">>>>, raises |-> FALSE],
            [frags |-> <<<<"{", "loss:150", "}">>>>, raises |-> FALSE],
            [frags |-> <<<<"{", "rt:bad", "}">>>>, raises |-> FALSE],
            [frags |-> <<<<"x">>, <<>>>>, raises |-> FALSE],
            [frags |-> <<<<"null">>, <<>>, <<" ">>>>, raises |-> FALSE],
            [frags |-> <<>>, raises |-> FALSE],
            [frags |-> <<>>, raises |-> TRUE],
            [frags |-> <<<<"x">>>>, raises |-> TRUE]}
      [] step_name = "assess_risk_profile" ->
           {[frags |-> <<<<"x", " ", "{", "score:72", "level:balanced">>,
                         <<"factors:[age]", "notes:ok", "}", " ", "x">>>>,
             raises |-> FALSE],
            [frags |-> <<<<"{", "}">>>>, raises |-> FALSE],
            [frags |-> <<<<"{", "score:140", "}">>>>, raises |-> FALSE],
            [frags |-> <<<<"{", "score:null", "}">>>>, raises |-> FALSE],
            [frags |-> <<<<"7">>>>, raises |-> FALSE],
            [frags |-> <<>>, raises |-> FALSE],
            [frags |-> <<<<"{">>, <<"level:balanced">>, <<"x">>>>, raises |-> FALSE],
            [frags |-> <<>>, raises |-> TRUE],
            [frags |-> <<<<"x">>>>, raises |-> TRUE]}
      [] step_name = "generate_customer_profile" ->
           {[frags |-> <<<<"x">>, <<" ", "x", " ">>>>, raises |-> FALSE],
            [frags |-> <<<<>>>>, raises |-> FALSE],
            [frags |-> <<>>, raises |-> FALSE],
            [frags |-> <<<<"x">>, <<>>, <<"x">>>>, raises |-> FALSE],
            [frags |-> <<>>, raises |-> TRUE],
            [frags |-> <<<<"x">>>>, raises |-> TRUE]}

Scripts(step_name) == {s \in AllScripts(step_name) : Len(s.frags) <= MaxFragments}

\* The language models a workflow may be created with, each by the streams it
\* may produce: "any" produces every stream; "fluent" answers every step in
\* two fragments with text; "terse" ends every stream without text; "down"
\* raises when a stream is opened; "flaky" raises after a first fragment.
LLMs == {"any", "fluent", "terse", "down", "flaky"}

ModelScripts(model, step_name) ==
    CASE model = "any" -> Scripts(step_name)
      [] model = "fluent" ->
            {s \in Scripts(step_name) :
                /\ ~s.raises /\ Len(s.frags) = 2
                /\ \A i \in 1..Len(s.frags) : s.frags[i] # <<>>}
      [] model = "terse" ->
            {s \in Scripts(step_name) : ~s.raises /\ s.frags = <<>>}
      [] model = "down" ->
            {s \in Scripts(step_name) : s.raises /\ s.frags = <<>>}
      [] model = "flaky" ->
            {s \in Scripts(step_name) : s.raises /\ Len(s.frags) = 1}

IsPrefix(p, q) == Len(p) <= Len(q) /\ SubSeq(q, 1, Len(p)) = p

\* The inputs of run().
UserInputs == {<<>>, <<"I am 35 and live in Beijing">>}
CustomerIds == {Null, Str("CUST001")}

-----------------------------------------------------------------------------
(* core/kyc/workflows/kyc_workflow.py: what each step computes *)

\* What a try block ends with: the event it returns, or the exception raised.
Returned(e) == [raised |-> FALSE, ev |-> e]
Raised(error) == [raised |-> TRUE, error |-> error]

\* data.get(key, default) on a dict.
get(data, key, default) == IF key \in DOMAIN data.d THEN data.d[key] ELSE default

\* A reading that takes a parsed value that is no dict for a dict without keys.
parsed_data_non_dict_as_empty(response_text) ==
    the({IF parsed.kind # "value" THEN Raised("JSONDecodeError")
         ELSE IF parsed.value.t # "dict"
              THEN [raised |-> FALSE, data |-> [t |-> "dict", d |-> <<>>]]
         ELSE [raised |-> FALSE, data |-> parsed.value] :
            parsed \in {extract_json_from_response(response_text)}})

\* The data a parsing step reads with data.get: the parsed value when it is a
\* dict, or the exception raised on the way (the parser's JSONDecodeError, or
\* the AttributeError of .get on a value that is no dict).
parsed_data(response_text) ==
    the({IF parsed.kind # "value" THEN Raised("JSONDecodeError")
         ELSE IF parsed.value.t # "dict" THEN Raised("AttributeError")
         ELSE [raised |-> FALSE, data |-> parsed.value] :
            parsed \in {extract_json_from_response(response_text)}})

\* user_input and customer_id as step 1 reads them from the start event.
start_user_input(e) ==
    IF getattr(e, "user_input", <<>>) # <<>> THEN getattr(e, "user_input", <<>>)
    ELSE getattr(e, "data", <<>>)

start_customer_id(e) == getattr(e, "customer_id", Null)

\* A step 1 that takes the age from the wrong key.
basic_info_from_wrong_key(data) ==
    [age |-> get(data, "dependents", Num(30)),
     city |-> get(data, "city", Str("Unknown")),
     marital_status |-> get(data, "marital_status", Str("single")),
     employment_status |-> get(data, "employment_status", Str("employed")),
     annual_income |-> get(data, "annual_income", Null),
     education_level |-> get(data, "education_level", Null),
     dependents |-> get(data, "dependents", Num(0))]

\* Step 1, the model built from the parsed data.
basic_info_from(data) ==
    [age |-> get(data, "age", Num(30)),
     city |-> get(data, "city", Str("Unknown")),
     marital_status |-> get(data, "marital_status", Str("single")),
     employment_status |-> get(data, "employment_status", Str("employed")),
     annual_income |-> get(data, "annual_income", Null),
     education_level |-> get(data, "education_level", Null),
     dependents |-> get(data, "dependents", Num(0))]

\* Step 1, the default values of its except block.
default_basic_info ==
    [age |-> Num(30), city |-> Str("Unknown"), marital_status |-> Str("single"),
     employment_status |-> Str("employed"), annual_income |-> Null,
     education_level |-> Null, dependents |-> Num(0)]

\* A step 1 that repairs a failed validation in part: it keeps the parsed city
\* and takes the defaults for the rest.
collect_basic_info_try_repair(e, response_text) ==
    the({IF p.raised THEN p
         ELSE IF ~BasicInfoValid(basic_info_from(p.data))
              THEN Returned(BasicInfoEvent(
                       [default_basic_info EXCEPT
                           !.city = get(p.data, "city", Str("Unknown"))],
                       start_customer_id(e), start_user_input(e)))
         ELSE Returned(BasicInfoEvent(basic_info_from(p.data),
                                      start_customer_id(e), start_user_input(e))) :
            p \in {parsed_data(response_text)}})

\* A step 1 that builds its object without validating the fields.
collect_basic_info_try_unvalidated(e, response_text) ==
    the({IF p.raised THEN p
         ELSE Returned(BasicInfoEvent(basic_info_from(p.data),
                                      start_customer_id(e), start_user_input(e))) :
            p \in {parsed_data(response_text)}})

\* Step 1 after its stream has ended.
collect_basic_info_try(e, response_text) ==
    the({IF p.raised THEN p
         ELSE IF ~BasicInfoValid(basic_info_from(p.data))
              THEN Raised("ValidationError")
         ELSE Returned(BasicInfoEvent(basic_info_from(p.data),
                                      start_customer_id(e), start_user_input(e))) :
            p \in {parsed_data(response_text)}})

\* Step 1, the event its except block returns.
collect_basic_info_except(e) ==
    BasicInfoEvent(default_basic_info, start_customer_id(e), start_user_input(e))

\* Step 2, the model built from the parsed data.
investment_preference_from(data) ==
    [investable_assets |-> get(data, "investable_assets", Num(100000)),
     max_loss_tolerance |-> get(data, "max_loss_tolerance", Num(10)),
     investment_horizon_years |-> get(data, "investment_horizon_years", Num(5)),
     risk_tolerance |-> get(data, "risk_tolerance", Str("moderate")),
     investment_goals |-> get(data, "investment_goals", List(<<>>)),
     preferred_investment_types |->
        get(data, "preferred_investment_types", List(<<>>)),
     liquidity_needs |-> get(data, "liquidity_needs", Null)]

\* Step 2, the default values of its except block (the two lists take the
\* model's default_factory).
default_investment_preference ==
    [investable_assets |-> Num(100000), max_loss_tolerance |-> Num(10),
     investment_horizon_years |-> Num(5), risk_tolerance |-> Str("moderate"),
     investment_goals |-> List(<<>>), preferred_investment_types |-> List(<<>>),
     liquidity_needs |-> Null]

\* Step 2 after its stream has ended.
collect_investment_preferences_try(e, response_text) ==
    the({IF p.raised THEN p
         ELSE IF ~InvestmentPreferenceValid(investment_preference_from(p.data))
              THEN Raised("ValidationError")
         ELSE Returned(InvestmentPreferenceEvent(
                           e.basic_info, investment_preference_from(p.data),
                           e.customer_id, e.user_input)) :
            p \in {parsed_data(response_text)}})

\* A step 2 whose except block hands back the event it received, so that the
\* step is tried again.
collect_investment_preferences_except_retry(e) == e

\* Step 2, the event its except block returns.
collect_investment_preferences_except(e) ==
    InvestmentPreferenceEvent(e.basic_info, default_investment_preference,
                              e.customer_id, e.user_input)

\* A step 3 that fills the missing keys from the values of its except block.
risk_profile_from_failure_defaults(data) ==
    [risk_score |-> get(data, "risk_score", Num(50)),
     risk_level |-> get(data, "risk_level", Str("moderate")),
     risk_factors |-> get(data, "risk_factors", List(<<"insufficient information">>)),
     suitability_notes |->
        get(data, "suitability_notes",
            Str("insufficient information; further consultation is recommended"))]

\* Step 3, the model built from the parsed data.
risk_profile_from(data) ==
    [risk_score |-> get(data, "risk_score", Num(50)),
     risk_level |-> get(data, "risk_level", Str("moderate")),
     risk_factors |-> get(data, "risk_factors", List(<<>>)),
     suitability_notes |-> get(data, "suitability_notes", Null)]

\* Step 3, the default values of its except block.
default_risk_profile ==
    [risk_score |-> Num(50), risk_level |-> Str("moderate"),
     risk_factors |-> List(<<"insufficient information">>),
     suitability_notes |->
        Str("insufficient information; further consultation is recommended")]

\* Step 3 after its stream has ended.
assess_risk_profile_try(e, response_text) ==
    the({IF p.raised THEN p
         ELSE IF ~RiskProfileValid(risk_profile_from(p.data))
              THEN Raised("ValidationError")
         ELSE Returned(RiskAssessmentEvent(
                           e.basic_info, e.investment_preference,
                           risk_profile_from(p.data), e.customer_id)) :
            p \in {parsed_data(response_text)}})

\* A step 3 whose except block starts again from the default basic information.
assess_risk_profile_except_reset(e) ==
    RiskAssessmentEvent(default_basic_info, e.investment_preference,
                        default_risk_profile, e.customer_id)

\* Step 3, the event its except block returns.
assess_risk_profile_except(e) ==
    RiskAssessmentEvent(e.basic_info, e.investment_preference,
                        default_risk_profile, e.customer_id)

\* A step 4 that reports an error when the risk profile it received is the
\* default one of a failed step 3.
generate_customer_profile_try_strict(e, response_text) ==
    IF e.risk_profile = default_risk_profile
    THEN Returned(StopEvent([status |-> "error", error |-> "incomplete profile",
                             message |-> "error while generating the customer profile"]))
    ELSE Returned(StopEvent(
             [customer_profile |->
                 CustomerProfile(e.customer_id, e.basic_info,
                                 e.investment_preference, e.risk_profile),
              recommendation |-> response_text,
              status |-> "completed"]))

\* Step 4 after its stream has ended: the profile and the recommendation.
generate_customer_profile_try(e, response_text) ==
    Returned(StopEvent(
        [customer_profile |->
            CustomerProfile(e.customer_id, e.basic_info, e.investment_preference,
                            e.risk_profile),
         recommendation |-> response_text,
         status |-> "completed"]))

\* A step 4 whose except block hands out the profile it had built.
generate_customer_profile_except_partial(e, error) ==
    StopEvent([status |-> "error", error |-> error,
               message |-> "error while generating the customer profile",
               customer_profile |->
                   CustomerProfile(e.customer_id, e.basic_info,
                                   e.investment_preference, e.risk_profile)])

\* A step 4 whose except block raises again instead of returning a result.
generate_customer_profile_except_reraise(e, error) ==
    [type |-> "WorkflowRuntimeError", error |-> error]

\* Step 4, the event its except block returns.
generate_customer_profile_except(e, error) ==
    StopEvent([status |-> "error", error |-> error,
               message |-> "error while generating the customer profile"])

-----------------------------------------------------------------------------
(* The workflow as a state machine *)

VARIABLES
    pc,             \* "idle": no run yet; "ready": ev waits for the step that
                    \* takes it; "streaming": that step reads its model
                    \* stream; "done": the run returned its StopEvent
    ev,             \* the event the workflow passes to the next step
    response_text,  \* the text the running step has aggregated
    events,         \* the run's event stream (handler.stream_events())
    delivered,      \* per step, the fragments its model stream has delivered
    stream_status,  \* per step, its model stream: "unopened", "open", "ended"
                    \* (normally) or "raised"
    log,            \* the log line each step wrote when it returned
    llm,            \* the language model the workflow class was created with
    \* A KYCAgent (core/llm/agent/kyc_agent.py):
    customer_id,    \* self.customer_id
    memory,         \* self.chatbot.memory, the messages in order, each with
                    \* the number of the call that put it
    kyc_workflow,   \* self.kyc_workflow: 0 for None, or the number of the
                    \* KYCWorkflow instance
    created,        \* how many KYCWorkflow instances have been created
    \* The call of the agent in progress:
    apc,            \* where it stands; "idle" when none is in progress
    turn,           \* the number of the call (calls are counted from 1)
    message,        \* the message it was called with
    intent,         \* what _detect_intent returned
    detect,         \* what _detect_intent did: the prompts it rendered, the
                    \* model calls it made and what the model call gave
    yielded,        \* what the call has yielded to its caller
    consumed,       \* how many events of the run the call has taken from
                    \* handler.stream_events()
    full_response_parts,
    fallback_result,
    workflow,       \* the KYCWorkflow whose run the call reads, 0 for none
    trace,          \* what the call has done, in order
    last,           \* the last thing the agent did
    \* A call of the response parser on its own:
    response,       \* the text given to extract_json_from_response
    json_str,       \* the substring it hands to json.loads
    extracted,      \* what it returned or raised, once it has
    \* The socket handlers (api/chat/chat.py):
    kyc_agents,     \* _kyc_agents: per session the number of its agent, 0
                    \* where the session has none
    instances,      \* the KYCAgents created, by number: memory and workflow
    tasks,          \* the background tasks started, in the order of their
                    \* messages
    emitted,        \* the events emitted, in order
    inbound,        \* how many events have come in
    handled,        \* the event that came in last
    \* A call of the synchronous bridge KYCAgent._stream_kyc_workflow:
    generator,      \* the asynchronous generator it wraps: the items it
                    \* yields, how it ends, and what the event loop does
    chunk_queue,    \* chunk_queue, a FIFO of chunks and None
    enqueued,       \* everything put on chunk_queue so far, in order
    error_occurred, \* error_occurred.is_set()
    error_message,  \* error_message
    producer,       \* the background thread: where it stands and how many
                    \* items it has taken from the generator
    bridge,         \* where the bridge, a generator itself, stands
    bridge_yielded, \* what the bridge has yielded to its caller
    expired         \* the timeouts that have expired: "get", "join"

workflow_vars == <<pc, ev, response_text, events, delivered, stream_status, log>>

agent_vars ==
    <<customer_id, memory, kyc_workflow, created, apc, turn, message, intent,
      detect, yielded, consumed, full_response_parts, fallback_result, workflow,
      trace, last>>

parser_vars == <<response, json_str, extracted>>

session_vars == <<kyc_agents, instances, tasks, emitted, inbound, handled>>

bridge_vars ==
    <<generator, chunk_queue, enqueued, error_occurred, error_message, producer,
      bridge, bridge_yielded, expired>>

vars == <<workflow_vars, llm, agent_vars, parser_vars, session_vars, bridge_vars>>

\* _detect_intent has not run.
NotDetected ==
    [user_input |-> <<>>, prompts |-> <<>>, calls |-> <<>>, response |-> <<>>,
     exception |-> FALSE, returned |-> "none"]

\* A new agent, with no call in progress.
agent_init ==
    /\ customer_id \in CustomerIds
    /\ memory = <<>>
    /\ kyc_workflow = 0
    /\ created = 0
    /\ apc = "idle"
    /\ turn = 0
    /\ message = <<>>
    /\ intent = "none"
    /\ detect = NotDetected
    /\ yielded = <<>>
    /\ consumed = 0
    /\ full_response_parts = <<>>
    /\ fallback_result = <<>>
    /\ workflow = 0
    /\ trace = <<>>
    /\ last = "none"

\* No run of the workflow has started.
workflow_init ==
    /\ pc = "idle"
    /\ ev = [type |-> "None"]
    /\ response_text = <<>>
    /\ events = <<>>
    /\ delivered = [s \in Steps |-> <<>>]
    /\ stream_status = [s \in Steps |-> "unopened"]
    /\ log = <<>>

\* The parser has not been called.
NotExtracted == [kind |-> "none"]

parser_init == response = <<>> /\ json_str = <<>> /\ extracted = NotExtracted

\* The sessions that may connect.
Sessions == {"s1", "s2"}

\* No session has connected.
session_init ==
    /\ kyc_agents = [sid \in Sessions |-> 0]
    /\ instances = <<>>
    /\ tasks = <<>>
    /\ emitted = <<>>
    /\ inbound = 0
    /\ handled = [event |-> "none"]

\* The asynchronous generator of a bridge that is not called.
NoGenerator == [items |-> <<>>, ends |-> "returns", loop |-> "runs"]

\* The locals of _stream_kyc_workflow before its thread is started.
bridge_locals ==
    /\ chunk_queue = <<>>
    /\ enqueued = <<>>
    /\ error_occurred = FALSE
    /\ error_message = <<>>
    /\ producer = [pc |-> "unstarted", n |-> 0, in |-> "none"]
    /\ bridge = "idle"
    /\ bridge_yielded = <<>>
    /\ expired = {}

\* The bridge is not called.
bridge_init == generator = NoGenerator /\ bridge_locals

\* The workflow on its own, as the tests run it: no agent calls it.
Init ==
    /\ workflow_init
    /\ llm = "any"
    /\ agent_init /\ customer_id = Null
    /\ parser_init
    /\ session_init
    /\ bridge_init

\* handler = workflow.run(user_input=..., customer_id=...): the run starts with
\* its StartEvent and an empty event stream.
start_run(user_input, id) ==
    /\ ev' = StartEvent(user_input, id)
    /\ pc' = "ready"
    /\ response_text' = <<>>
    /\ events' = <<>>
    /\ delivered' = [s \in Steps |-> <<>>]
    /\ stream_status' = [s \in Steps |-> "unopened"]
    /\ log' = <<>>

\* workflow.run(user_input=..., customer_id=...): a new run of the workflow.
run ==
    /\ pc \in {"idle", "done"}
    /\ \E user_input \in UserInputs, id \in CustomerIds : start_run(user_input, id)
    /\ UNCHANGED <<llm, agent_vars, parser_vars, session_vars, bridge_vars>>

\* The fragments the stream of a step may deliver next, and whether it may end
\* or raise now.
NextFragments(step_name) ==
    {s.frags[Len(delivered[step_name]) + 1] :
        s \in {x \in ModelScripts(llm, step_name) :
                  /\ Len(x.frags) > Len(delivered[step_name])
                  /\ IsPrefix(delivered[step_name], x.frags)}}

StreamMayEnd(step_name) ==
    \E s \in ModelScripts(llm, step_name) : s.frags = delivered[step_name] /\ ~s.raises

StreamMayRaise(step_name) ==
    \E s \in ModelScripts(llm, step_name) : s.frags = delivered[step_name] /\ s.raises

\* A __stream_llm_response__ that writes the event of a fragment twice.
chunk_events_twice(chunk, step_name) ==
    IF chunk # <<>>
    THEN <<StreamingChunkEvent(chunk, step_name, FALSE),
           StreamingChunkEvent(chunk, step_name, FALSE)>>
    ELSE <<>>

\* A __stream_llm_response__ that writes an event for every token, with or
\* without text.
chunk_events_every_token(chunk, step_name) ==
    <<StreamingChunkEvent(chunk, step_name, FALSE)>>

\* The events __stream_llm_response__ writes for one token of the stream.
chunk_events(chunk, step_name) ==
    IF chunk # <<>> THEN <<StreamingChunkEvent(chunk, step_name, FALSE)>> ELSE <<>>

\* A __stream_llm_response__ that tags every completion event with the name
\* of the first step.
completion_events_first_step(step_name) ==
    <<StreamingChunkEvent(<<"\n">>, "collect_basic_info", TRUE)>>

\* The events __stream_llm_response__ writes once the stream has ended.
completion_events(step_name) == <<StreamingChunkEvent(<<"\n">>, step_name, TRUE)>>

\* The event the workflow takes from a step, given the event the step's try
\* block or except block returned.
next_event(returned) == returned

\* A step returns: the workflow takes its event, and a StopEvent ends the run
\* and the event stream.
step_returns(step_name, returned, level, written) ==
    /\ \E next \in {next_event(returned)} :
        /\ ev' = next
        /\ pc' = IF next.type = "StopEvent" THEN "done" ELSE "ready"
        /\ events' = IF next.type = "StopEvent" THEN Append(written, next)
                     ELSE written
    /\ log' = Append(log, [step |-> step_name, level |-> level])
    /\ response_text' = <<>>

\* load_prompt_with_context raises (the template is missing): the except
\* block returns.
prompt_fails(step_name, except_event) ==
    /\ pc = "ready"
    /\ ev.type = Accepts(step_name)
    /\ step_returns(step_name, except_event, "error", events)
    /\ UNCHANGED <<delivered, stream_status>>
    /\ UNCHANGED <<llm, agent_vars, parser_vars, session_vars, bridge_vars>>

\* The prompt is rendered and llm.astream_complete(prompt) is awaited.
stream_opens(step_name) ==
    /\ pc = "ready"
    /\ ev.type = Accepts(step_name)
    /\ pc' = "streaming"
    /\ response_text' = <<>>
    /\ stream_status' = [stream_status EXCEPT ![step_name] = "open"]
    /\ UNCHANGED <<ev, events, delivered, log>>
    /\ UNCHANGED <<llm, agent_vars, parser_vars, session_vars, bridge_vars>>

\* A __stream_llm_response__ that keeps the last fragment only
\* (response_text = chunk).
stream_token_overwrites(step_name) ==
    /\ pc = "streaming"
    /\ ev.type = Accepts(step_name)
    /\ \E chunk \in NextFragments(step_name) :
        /\ delivered' = [delivered EXCEPT ![step_name] = Append(@, chunk)]
        /\ response_text' = chunk
        /\ events' = events \o chunk_events(chunk, step_name)
    /\ UNCHANGED <<pc, ev, stream_status, log>>
    /\ UNCHANGED <<llm, agent_vars, parser_vars, session_vars, bridge_vars>>

\* One iteration of the async for of __stream_llm_response__.
stream_token(step_name) ==
    /\ pc = "streaming"
    /\ ev.type = Accepts(step_name)
    /\ \E chunk \in NextFragments(step_name) :
        /\ delivered' = [delivered EXCEPT ![step_name] = Append(@, chunk)]
        /\ response_text' = response_text \o chunk
        /\ events' = events \o chunk_events(chunk, step_name)
    /\ UNCHANGED <<pc, ev, stream_status, log>>
    /\ UNCHANGED <<llm, agent_vars, parser_vars, session_vars, bridge_vars>>

\* The stream raises: the exception leaves __stream_llm_response__ and the
\* step's except block returns.
stream_raises(step_name, except_event) ==
    /\ pc = "streaming"
    /\ ev.type = Accepts(step_name)
    /\ StreamMayRaise(step_name)
    /\ step_returns(step_name, except_event, "error", events)
    /\ stream_status' = [stream_status EXCEPT ![step_name] = "raised"]
    /\ UNCHANGED delivered
    /\ UNCHANGED <<llm, agent_vars, parser_vars, session_vars, bridge_vars>>

\* A workflow that holds the chat memory and puts the text of every stream
\* that ends into it.
stream_ends_writes_memory(step_name, try_result, except_event) ==
    /\ pc = "streaming"
    /\ ev.type = Accepts(step_name)
    /\ StreamMayEnd(step_name)
    /\ \E r \in {try_result} :
           step_returns(step_name,
                        IF r.raised THEN except_event ELSE r.ev,
                        IF r.raised THEN "error" ELSE "info",
                        events \o completion_events(step_name))
    /\ stream_status' = [stream_status EXCEPT ![step_name] = "ended"]
    /\ memory' = Append(memory, [role |-> "assistant",
                                 content |-> strip(response_text), call |-> turn])
    /\ UNCHANGED delivered
    /\ UNCHANGED <<customer_id, kyc_workflow, created, apc, turn, message,
                   intent, detect, yielded, consumed, full_response_parts,
                   fallback_result, workflow, trace, last>>
    /\ UNCHANGED <<llm, parser_vars, session_vars, bridge_vars>>

\* The stream ends: __stream_llm_response__ writes the completion event and
\* returns the stripped text, and the rest of the step runs without awaiting.
stream_ends(step_name, try_result, except_event) ==
    /\ pc = "streaming"
    /\ ev.type = Accepts(step_name)
    /\ StreamMayEnd(step_name)
    /\ \E r \in {try_result} :
           step_returns(step_name,
                        IF r.raised THEN except_event ELSE r.ev,
                        IF r.raised THEN "error" ELSE "info",
                        events \o completion_events(step_name))
    /\ stream_status' = [stream_status EXCEPT ![step_name] = "ended"]
    /\ UNCHANGED delivered
    /\ UNCHANGED <<llm, agent_vars, parser_vars, session_vars, bridge_vars>>

collect_basic_info ==
    \/ prompt_fails("collect_basic_info", collect_basic_info_except(ev))
    \/ stream_opens("collect_basic_info")
    \/ stream_token("collect_basic_info")
    \/ stream_raises("collect_basic_info", collect_basic_info_except(ev))
    \/ stream_ends("collect_basic_info",
                   collect_basic_info_try(ev, strip(response_text)),
                   collect_basic_info_except(ev))

collect_investment_preferences ==
    \/ prompt_fails("collect_investment_preferences",
                    collect_investment_preferences_except(ev))
    \/ stream_opens("collect_investment_preferences")
    \/ stream_token("collect_investment_preferences")
    \/ stream_raises("collect_investment_preferences",
                     collect_investment_preferences_except(ev))
    \/ stream_ends("collect_investment_preferences",
                   collect_investment_preferences_try(ev, strip(response_text)),
                   collect_investment_preferences_except(ev))

assess_risk_profile ==
    \/ prompt_fails("assess_risk_profile", assess_risk_profile_except(ev))
    \/ stream_opens("assess_risk_profile")
    \/ stream_token("assess_risk_profile")
    \/ stream_raises("assess_risk_profile", assess_risk_profile_except(ev))
    \/ stream_ends("assess_risk_profile",
                   assess_risk_profile_try(ev, strip(response_text)),
                   assess_risk_profile_except(ev))

generate_customer_profile ==
    \/ prompt_fails("generate_customer_profile",
                    generate_customer_profile_except(ev, "TemplateNotFound"))
    \/ stream_opens("generate_customer_profile")
    \/ stream_token("generate_customer_profile")
    \/ stream_raises("generate_customer_profile",
                     generate_customer_profile_except(ev, "UpstreamModelError"))
    \/ stream_ends("generate_customer_profile",
                   generate_customer_profile_try(ev, strip(response_text)),
                   generate_customer_profile_except(ev, "Exception"))

\* The steps of a run: the event loop runs whichever step takes the event.
Workflow ==
    \/ collect_basic_info
    \/ collect_investment_preferences
    \/ assess_risk_profile
    \/ generate_customer_profile

Next == run \/ Workflow

Spec == Init /\ [][Next]_vars

\* The event loop keeps running a started run: each model stream delivers its
\* next fragment, ends or raises.
FairSpec == Spec /\ WF_vars(Workflow)

-----------------------------------------------------------------------------
(* The claims *)

\* The state of the workflow as the number of steps that have returned:
\* 0 START, 1 BASIC_INFO_COLLECTED, 2 PREFERENCES_COLLECTED, 3 RISK_ASSESSED,
\* 4 PROFILE_GENERATED.
StateIndex ==
    CASE ev.type = "StartEvent" -> 0
      [] ev.type = "BasicInfoEvent" -> 1
      [] ev.type = "InvestmentPreferenceEvent" -> 2
      [] ev.type = "RiskAssessmentEvent" -> 3
      [] ev.type = "StopEvent" -> 4
      [] OTHER -> -1

InRun == pc \in {"ready", "streaming"}

Failed(i) == Len(log) >= i /\ log[i].level = "error"
Succeeded(i) == Len(log) >= i /\ log[i].level = "info"

C1_StateAndLog ==
    pc # "idle" =>
        /\ StateIndex = Len(log)
        /\ Len(log) <= Len(StepNames)
        /\ \A i \in 1..Len(log) : log[i].step = StepNames[i]

C1_Transition ==
    \/ /\ pc' = "ready" /\ StateIndex' = 0 /\ log' = <<>>
       /\ pc \in {"idle", "done"}
    \/ /\ InRun /\ StateIndex' = StateIndex /\ log' = log
    \/ /\ InRun /\ StateIndex' = StateIndex + 1
       /\ Len(log') = Len(log) + 1
       /\ SubSeq(log', 1, Len(log)) = log
       /\ log'[Len(log')].step = StepNames[StateIndex + 1]

\* C1: in every run the four steps return in the order collect_basic_info,
\* collect_investment_preferences, assess_risk_profile,
\* generate_customer_profile, each once: the state advances by exactly one
\* step at a time from START to PROFILE_GENERATED, never repeats a step,
\* never skips one and never goes back, whether the step logged success or
\* failure.
C1_StepOrder == [](C1_StateAndLog) /\ [][C1_Transition]_vars

\* A finished run in which step 2 failed and step 3 succeeded.
C1_Witness ==
    /\ pc = "done" /\ StateIndex = 4 /\ Len(log) = 4
    /\ Failed(2) /\ Succeeded(3)

StopEvents == SelectSeq(events, LAMBDA e : e.type = "StopEvent")

C2_OneResult ==
    /\ pc = "done" =>
          /\ Len(StopEvents) = 1
          /\ events[Len(events)] = ev
          /\ ev.type = "StopEvent"
          /\ ev.result.status \in {"completed", "error"}
    /\ pc # "done" => Len(StopEvents) = 0

C3_StatusFromStep4 ==
    pc = "done" =>
        ev.result.status =
            IF stream_status["generate_customer_profile"] = "ended"
            THEN "completed" ELSE "error"

\* A completed run whose steps 1, 2 and 3 all failed.
C3_Witness ==
    /\ pc = "done" /\ ev.result.status = "completed"
    /\ Failed(1) /\ Failed(2) /\ Failed(3)

\* The text a step's stream delivered in all, as __stream_llm_response__
\* returns it, and what that text parses to.
Text(step_name) == strip(join(delivered[step_name]))
Parsed(step_name) == extract_json_from_response(Text(step_name))
ParsedDict(step_name) ==
    Parsed(step_name).kind = "value" /\ Parsed(step_name).value.t = "dict"

\* The object step i (1, 2 or 3) adds, read from the event it returned.
Output(i) ==
    CASE i = 1 -> ev.basic_info
      [] i = 2 -> ev.investment_preference
      [] i = 3 -> ev.risk_profile

\* The object step i builds from a parsed dict.
Built(i, data) ==
    CASE i = 1 -> basic_info_from(data)
      [] i = 2 -> investment_preference_from(data)
      [] i = 3 -> risk_profile_from(data)

\* Whether the object step i builds passes its model's validation.
Valid(i, object) ==
    CASE i = 1 -> BasicInfoValid(object)
      [] i = 2 -> InvestmentPreferenceValid(object)
      [] i = 3 -> RiskProfileValid(object)

\* The documented default object of step i.
Documented(i) ==
    CASE i = 1 -> [age |-> Num(30), city |-> Str("Unknown"),
                   marital_status |-> Str("single"),
                   employment_status |-> Str("employed"),
                   annual_income |-> Null, education_level |-> Null,
                   dependents |-> Num(0)]
      [] i = 2 -> [investable_assets |-> Num(100000),
                   max_loss_tolerance |-> Num(10),
                   investment_horizon_years |-> Num(5),
                   risk_tolerance |-> Str("moderate"),
                   investment_goals |-> List(<<>>),
                   preferred_investment_types |-> List(<<>>),
                   liquidity_needs |-> Null]
      [] i = 3 -> [risk_score |-> Num(50), risk_level |-> Str("moderate"),
                   risk_factors |-> List(<<"insufficient information">>),
                   suitability_notes |->
                       Str("insufficient information; further consultation is recommended")]

\* Step i's model call raised, or the parser raised on its text, or did not
\* give a dict, or a parsed value fails validation.
ModelParseOrValidationFails(i) ==
    \/ stream_status[StepNames[i]] = "raised"
    \/ /\ stream_status[StepNames[i]] = "ended"
       /\ \/ ~ParsedDict(StepNames[i])
          \/ ~Valid(i, Built(i, Parsed(StepNames[i]).value))

\* C4: when step 1, 2 or 3 has returned after its model call raised, its text
\* did not parse, or a parsed value failed validation, the object it hands on
\* is its documented default object, field for field: no parsed field is kept.
C4_DefaultOnFailure ==
    \A i \in 1..3 :
        (pc # "idle" /\ StateIndex = i /\ ModelParseOrValidationFails(i))
            => Output(i) = Documented(i)

\* Step 1 has returned after its model wrote an age of 17 and the city
\* Beijing: the city it hands on is the default one.
C4_Witness ==
    /\ pc = "ready" /\ StateIndex = 1
    /\ stream_status["collect_basic_info"] = "ended"
    /\ ParsedDict("collect_basic_info")
    /\ Parsed("collect_basic_info").value.d =
           [age |-> Num(17), city |-> Str("Beijing")]
    /\ ev.basic_info.city = Str("Unknown")

\* Whether step 4 ran its stream to a normal end.
Step4Succeeded == stream_status["generate_customer_profile"] = "ended"

\* C5: when step 4 fails the Result has status "error", the error text and
\* the fixed message, and nothing else (no profile, no recommendation); when
\* it succeeds the Result has status "completed", a customer profile and the
\* recommendation text, which is the stripped text of step 4's stream.
C5_ResultShape ==
    pc = "done" =>
        IF Step4Succeeded
        THEN /\ DOMAIN ev.result = {"customer_profile", "recommendation", "status"}
             /\ ev.result.status = "completed"
             /\ ev.result.customer_profile # Null
             /\ ev.result.recommendation = Text("generate_customer_profile")
        ELSE /\ DOMAIN ev.result = {"status", "error", "message"}
             /\ ev.result.status = "error"
             /\ ev.result.error =
                    IF stream_status["generate_customer_profile"] = "raised"
                    THEN "UpstreamModelError" ELSE "TemplateNotFound"
             /\ ev.result.message = "error while generating the customer profile"

\* Step 4's stream raised after it had delivered a fragment.
C5_Witness ==
    /\ pc = "done"
    /\ stream_status["generate_customer_profile"] = "raised"
    /\ delivered["generate_customer_profile"] # <<>>
    /\ ev.result.status = "error"

\* Steps 1, 2 and 3 each ended their stream with a text that parses to a dict
\* whose values are all valid.
AllParsedValid ==
    \A i \in 1..3 :
        /\ stream_status[StepNames[i]] = "ended"
        /\ ParsedDict(StepNames[i])
        /\ Valid(i, Built(i, Parsed(StepNames[i]).value))

\* The part of the final profile that step i built.
ProfilePart(i) ==
    CASE i = 1 -> ev.result.customer_profile.basic_info
      [] i = 2 -> ev.result.customer_profile.investment_preference
      [] i = 3 -> ev.result.customer_profile.risk_profile

\* C6: if the texts of steps 1-3 all parse to dicts of valid values and step
\* 4's stream ends normally, the run ends "completed" with a profile whose
\* three parts are the objects built from the parsed values: every parsed
\* key has its parsed value in the profile.
C6_CompletedFromParsed ==
    (pc = "done" /\ AllParsedValid /\ Step4Succeeded) =>
        /\ ev.result.status = "completed"
        /\ ev.result.customer_profile # Null
        /\ \A i \in 1..3 :
            /\ ProfilePart(i) = Built(i, Parsed(StepNames[i]).value)
            /\ \A key \in DOMAIN Parsed(StepNames[i]).value.d :
                   ProfilePart(i)[key] = Parsed(StepNames[i]).value.d[key]

\* A completed run whose step 1 parsed the age 35 and whose step 3 parsed the
\* score 72.
C6_Witness ==
    /\ pc = "done" /\ AllParsedValid /\ Step4Succeeded
    /\ "age:35" \in {Text("collect_basic_info")[i] :
                        i \in 1..Len(Text("collect_basic_info"))}
    /\ ev.result.customer_profile.basic_info.age = Num(35)
    /\ ev.result.customer_profile.risk_profile.risk_score = Num(72)

C7_Carried ==
    /\ ("basic_info" \in DOMAIN ev /\ "basic_info" \in DOMAIN ev')
           => ev'.basic_info = ev.basic_info
    /\ ("investment_preference" \in DOMAIN ev
            /\ "investment_preference" \in DOMAIN ev')
           => ev'.investment_preference = ev.investment_preference
    /\ (/\ ev.type = "RiskAssessmentEvent" /\ ev'.type = "StopEvent"
        /\ "customer_profile" \in DOMAIN ev'.result)
           => /\ ev'.result.customer_profile.basic_info = ev.basic_info
              /\ ev'.result.customer_profile.investment_preference =
                     ev.investment_preference

\* C7: once step 1 has produced the BasicInfo, every later event carries it
\* unchanged, and once step 2 has produced the InvestmentPreference, every
\* later event carries it unchanged, whether the later step succeeded or
\* failed; the final profile holds those two objects.
C7_CarriedUnchanged == [][C7_Carried]_vars

\* A completed run in which step 1 parsed the age 35, steps 2 and 3 failed,
\* and the final profile has that age.
C7_Witness ==
    /\ pc = "done" /\ Succeeded(1) /\ Failed(2) /\ Failed(3)
    /\ ev.result.status = "completed"
    /\ ev.result.customer_profile.basic_info.age = Num(35)
    /\ ev.result.customer_profile.basic_info # Documented(1)

\* The fields of the accumulated state.
AccumulatedFields ==
    {"user_input", "customer_id", "basic_info", "investment_preference",
     "risk_profile"}

C8_Kept ==
    (InRun /\ StateIndex \in 0..2 /\ StateIndex' = StateIndex + 1) =>
        \A f \in DOMAIN ev \cap AccumulatedFields :
            f \in DOMAIN ev' /\ ev'[f] = ev[f]

\* C8: the event step 1, 2 or 3 returns holds every field of the accumulated
\* state (user_input, customer_id, BasicInfo, InvestmentPreference,
\* RiskProfile) that the event it received held, with the same value.
C8_StateGrows == [][C8_Kept]_vars

\* The chunk events of a step, in the order of the event stream.
StepEvents(step_name) ==
    SelectSeq(events, LAMBDA e : e.type = "StreamingChunkEvent"
                                   /\ e.step_name = step_name)

NonEmptyFragments(step_name) ==
    SelectSeq(delivered[step_name], LAMBDA fragment : fragment # <<>>)

CompletionEvent(step_name) ==
    [type |-> "StreamingChunkEvent", chunk |-> <<"\n">>,
     step_name |-> step_name, is_complete |-> TRUE]

\* C9: when the stream of a step has ended normally, the events of the step
\* are one event with is_complete false for each non-empty fragment, in the
\* order delivered, and then one event whose chunk is a newline and whose
\* is_complete is true; the step has no other event.
C9_ChunkEvents ==
    \A s \in Steps :
        stream_status[s] = "ended" =>
            StepEvents(s) =
                [i \in 1..Len(NonEmptyFragments(s)) |->
                    [type |-> "StreamingChunkEvent",
                     chunk |-> NonEmptyFragments(s)[i],
                     step_name |-> s, is_complete |-> FALSE]]
                \o <<CompletionEvent(s)>>

\* Step 1's stream ended without a fragment and step 2's stream ended after a
\* fragment with text and one without.
C9_Witness ==
    /\ stream_status["collect_basic_info"] = "ended"
    /\ delivered["collect_basic_info"] = <<>>
    /\ stream_status["collect_investment_preferences"] = "ended"
    /\ delivered["collect_investment_preferences"] = <<<<"x">>, <<>>>>
    /\ Len(StepEvents("collect_investment_preferences")) = 2

\* C10: the event stream of a finished run holds a completion event for each
\* of the four steps, whether the step produced text, produced none or failed.
C10_EveryStepCompletes ==
    pc = "done" =>
        \A s \in Steps : \E i \in 1..Len(events) : events[i] = CompletionEvent(s)

\* The chunks of the events a step has written so far for fragments (the
\* events whose is_complete is false), in the order of the event stream.
FragmentChunks(step_name) ==
    [i \in 1..Len(SelectSeq(StepEvents(step_name), LAMBDA e : ~e.is_complete)) |->
        SelectSeq(StepEvents(step_name), LAMBDA e : ~e.is_complete)[i].chunk]

\* C11: at every moment of a stream, also between two fragments, the chunk
\* events the step has written carry exactly the non-empty fragments
\* delivered so far, in the order delivered, each once and as delivered:
\* none is reordered, duplicated, merged or held back.
C11_PassThrough ==
    \A s \in Steps : FragmentChunks(s) = NonEmptyFragments(s)

\* Step 1's stream is open, has delivered its first fragment, whose event is
\* written, and has another fragment to deliver.
C11_Witness ==
    /\ pc = "streaming"
    /\ stream_status["collect_basic_info"] = "open"
    /\ Len(delivered["collect_basic_info"]) = 1
    /\ NextFragments("collect_basic_info") # {}
    /\ FragmentChunks("collect_basic_info") = delivered["collect_basic_info"]
    /\ Len(events) = 1

\* Step i returned from its except block without having opened its stream:
\* load_prompt_with_context raised.
PromptFailed(i) ==
    /\ Failed(i)
    /\ stream_status[StepNames[i]] = "unopened"

\* C25: a run in which the rendering of a step's prompt raised (the template
\* is missing) does not end with a completed profile: its Result has status
\* "error".
C25_MissingTemplateIsFatal ==
    \A i \in 1..4 : (pc = "done" /\ PromptFailed(i)) => ev.result.status = "error"

\* Steps 1-3 succeeded and the prompt of step 4 could not be rendered: the
\* run ended with the error Result.
C25_Witness ==
    /\ pc = "done"
    /\ Succeeded(1) /\ Succeeded(2) /\ Succeeded(3)
    /\ PromptFailed(4)
    /\ ev.result.status = "error"
    /\ ev.result.error = "TemplateNotFound"

\* Whether the event the workflow holds carries the object of step i, and
\* that object.
Carries(i) ==
    CASE i = 1 -> ev.type \in {"BasicInfoEvent", "InvestmentPreferenceEvent",
                               "RiskAssessmentEvent"}
      [] i = 2 -> ev.type \in {"InvestmentPreferenceEvent", "RiskAssessmentEvent"}
      [] i = 3 -> ev.type = "RiskAssessmentEvent"

Carried(i) ==
    CASE i = 1 -> ev.basic_info
      [] i = 2 -> ev.investment_preference
      [] i = 3 -> ev.risk_profile

\* C29: every BasicInfo, InvestmentPreference and RiskProfile an event of the
\* workflow carries, and every part of the customer profile of a completed
\* Result, satisfies the field constraints of its model, whatever the model's
\* text contained.
C29_FieldConstraints ==
    /\ \A i \in 1..3 : Carries(i) => Valid(i, Carried(i))
    /\ (pc = "done" /\ ev.result.status = "completed") =>
           \A i \in 1..3 : Valid(i, ProfilePart(i))

\* The model gave step 1 an age of 17, step 2 a loss tolerance of 150 and
\* step 3 a risk score of 140, and the run ended with a completed profile.
C29_Witness ==
    /\ pc = "done" /\ ev.result.status = "completed"
    /\ ParsedDict("collect_basic_info")
    /\ get(Parsed("collect_basic_info").value, "age", Null) = Num(17)
    /\ ParsedDict("collect_investment_preferences")
    /\ get(Parsed("collect_investment_preferences").value, "max_loss_tolerance", Null) = Num(150)
    /\ ParsedDict("assess_risk_profile")
    /\ get(Parsed("assess_risk_profile").value, "risk_score", Null) = Num(140)
    /\ ProfilePart(1).age = Num(30)

\* return response_text.strip(): the text __stream_llm_response__ returns when
\* the stream ends now.
returned_text == strip(response_text)

\* The stream of a step ends in this step of the run.
StreamEnds(step_name) ==
    /\ stream_status[step_name] = "open"
    /\ stream_status'[step_name] = "ended"

\* C30 as stated: when the stream of a step ends, the text returned for the
\* parser, and the recommendation of a completed Result, is the concatenation
\* of all the fragments of the stream.
C30_TextIsConcatenation ==
    [][\A s \in Steps : StreamEnds(s) =>
          /\ returned_text = join(delivered[s])
          /\ (s = "generate_customer_profile" /\ ev'.result.status = "completed")
                => ev'.result.recommendation = join(delivered[s])]_vars

\* C30, amended: when the stream of a step ends, the text returned for the
\* parser, and the recommendation of a completed Result, is the concatenation
\* of all the fragments of the stream without its leading and trailing
\* whitespace.
C30_TextIsStrippedConcatenation ==
    [][\A s \in Steps : StreamEnds(s) =>
          /\ returned_text = strip(join(delivered[s]))
          /\ (s = "generate_customer_profile" /\ ev'.result.status = "completed")
                => ev'.result.recommendation = strip(join(delivered[s]))]_vars

\* Step 4's stream delivered "x" and then " x ", and the recommendation is
\* "x x".
C30_Witness ==
    /\ pc = "done"
    /\ stream_status["generate_customer_profile"] = "ended"
    /\ delivered["generate_customer_profile"] = <<<<"x">>, <<" ", "x", " ">>>>
    /\ ev.result.recommendation = <<"x", " ", "x">>

\* {}: the dict without keys.
NoKeys == [t |-> "dict", d |-> <<>>]

\* The default each field of step i's object takes when its key is missing
\* (the second argument of data.get, or the default of the model's field).
FieldDefaults(i) ==
    CASE i = 1 -> [age |-> Num(30), city |-> Str("Unknown"),
                   marital_status |-> Str("single"),
                   employment_status |-> Str("employed"),
                   annual_income |-> Null, education_level |-> Null,
                   dependents |-> Num(0)]
      [] i = 2 -> [investable_assets |-> Num(100000),
                   max_loss_tolerance |-> Num(10),
                   investment_horizon_years |-> Num(5),
                   risk_tolerance |-> Str("moderate"),
                   investment_goals |-> List(<<>>),
                   preferred_investment_types |-> List(<<>>),
                   liquidity_needs |-> Null]
      [] i = 3 -> [risk_score |-> Num(50), risk_level |-> Str("moderate"),
                   risk_factors |-> List(<<>>), suitability_notes |-> Null]

\* Whether value v is valid for field f of step i's object, the other fields
\* having their defaults.
FieldValid(i, f, v) == Valid(i, [FieldDefaults(i) EXCEPT ![f] = v])

\* Step i has just returned after its stream ended with a text that parses to
\* a dict that lacks at least one key of the step's object.
ReturnedFromPartialDict(i) ==
    /\ pc # "idle" /\ StateIndex = i
    /\ stream_status[StepNames[i]] = "ended"
    /\ ParsedDict(StepNames[i])
    /\ \E f \in DOMAIN FieldDefaults(i) : f \notin DOMAIN Parsed(StepNames[i]).value.d

\* C31 as stated: when the text of step 1, 2 or 3 parses to a dict that lacks
\* keys, the object the step hands on has, for every key present with a valid
\* value, that value, and for every missing key the default of data.get.
C31_ValidKeysKept ==
    \A i \in 1..3 : ReturnedFromPartialDict(i) =>
        \A f \in DOMAIN Output(i) :
            IF f \in DOMAIN Parsed(StepNames[i]).value.d
            THEN FieldValid(i, f, Parsed(StepNames[i]).value.d[f])
                    => Output(i)[f] = Parsed(StepNames[i]).value.d[f]
            ELSE Output(i)[f] = FieldDefaults(i)[f]

\* C31, amended: when the text of step 1, 2 or 3 parses to a dict that lacks
\* keys and whose values are all valid, the object the step hands on has the
\* parsed value for every key present and the default of data.get for every
\* missing key; it is not the object of the except block.
C31_MissingKeysTakeFieldDefaults ==
    \A i \in 1..3 :
        (/\ ReturnedFromPartialDict(i)
         /\ Valid(i, Built(i, Parsed(StepNames[i]).value))) =>
            \A f \in DOMAIN Output(i) :
                Output(i)[f] =
                    IF f \in DOMAIN Parsed(StepNames[i]).value.d
                    THEN Parsed(StepNames[i]).value.d[f]
                    ELSE FieldDefaults(i)[f]

\* Step 3 returned on the text {}: score 50, moderate, no risk factor and no
\* note, which is not the object of its except block.
C31_Witness ==
    /\ pc = "ready" /\ StateIndex = 3
    /\ stream_status["assess_risk_profile"] = "ended"
    /\ Parsed("assess_risk_profile") = [kind |-> "value", value |-> NoKeys]
    /\ ev.risk_profile = [risk_score |-> Num(50), risk_level |-> Str("moderate"),
                          risk_factors |-> List(<<>>), suitability_notes |-> Null]
    /\ ev.risk_profile # default_risk_profile

\* The place of a step in the workflow.
StepNumber(step_name) == CHOOSE i \in 1..Len(StepNames) : StepNames[i] = step_name

\* C34: in the event stream of a run the chunk events come grouped by step,
\* in the order of the steps: no chunk event of a step comes after a chunk
\* event of a later step; and the terminal Result is the last event: a
\* StopEvent is at the end of the stream only, and the stream of a finished
\* run ends with it.
C34_GroupedByStep ==
    /\ \A i, j \in 1..Len(events) :
          (/\ i < j
           /\ events[i].type = "StreamingChunkEvent"
           /\ events[j].type = "StreamingChunkEvent")
              => StepNumber(events[i].step_name) <= StepNumber(events[j].step_name)
    /\ \A i \in 1..Len(events) : events[i].type = "StopEvent" => i = Len(events)
    /\ pc = "done" => events[Len(events)].type = "StopEvent"

\* A finished run in which every step wrote a chunk with text before its
\* completion event.
C34_Witness ==
    /\ pc = "done"
    /\ events[Len(events)].type = "StopEvent"
    /\ \A s \in Steps :
          \E i \in 1..(Len(events) - 1) :
              /\ events[i].type = "StreamingChunkEvent"
              /\ events[i].step_name = s /\ ~events[i].is_complete

\* The text of step i's stream parsed, without error, to a JSON value that is
\* no object.
ParsedNonDict(i) ==
    /\ stream_status[StepNames[i]] = "ended"
    /\ Parsed(StepNames[i]).kind = "value"
    /\ Parsed(StepNames[i]).value.t # "dict"

-----------------------------------------------------------------------------
(* The agent: intent detection, routing, chat memory (kyc_agent.py) *)

\* How many messages a session sends (a bound of the model).
MaxMessages == 2

\* The messages a caller sends: blank ones and one that says something.
Messages == {<<>>, <<" ">>, <<" ", "\n">>} \cup (UserInputs \ {<<>>})

\* str.lower(), character by character.
lower_char(c) ==
    CASE c = "K" -> "k" [] c = "Y" -> "y" [] c = "C" -> "c"
      [] c = "W" -> "w" [] c = "F" -> "f" [] OTHER -> c

lower(s) == [i \in 1..Len(s) |-> lower_char(s[i])]

\* sub in s, for strings.
contains(s, sub) ==
    \E i \in 1..(Len(s) - Len(sub) + 1) : SubSeq(s, i, i + Len(sub) - 1) = sub

\* What the classification model may answer, character by character.
Completions ==
    {<<"k", "y", "c">>,
     <<" ", "K", "Y", "C", "\n">>,
     <<"W", "o", "r", "k", "F", "l", "o", "w">>,
     <<"n", "o", "r", "m", "a", "l">>,
     <<"k", "y", " ", "c">>,
     <<"w", "o", "r", "k">>,
     <<" ">>,
     <<>>}

\* What may happen inside _detect_intent's try block: the template does not
\* render, the model call raises, or the model answers.
DetectOutcomes ==
    {[kind |-> "load_prompt_with_context raises", text |-> <<>>],
     [kind |-> "complete raises", text |-> <<>>]}
        \cup {[kind |-> "complete returns", text |-> t] : t \in Completions}

\* The same for a message the agent goes on to answer: one answer of each kind.
RoutedOutcomes ==
    {outcome \in DetectOutcomes :
        outcome.kind = "complete returns" =>
            outcome.text \in {<<" ", "K", "Y", "C", "\n">>,
                              <<"n", "o", "r", "m", "a", "l">>}}

\* A detection that calls the model even for a blank input.
detect_intent_unguarded(user_input, outcome) ==
    [user_input |-> user_input,
     prompts |-> <<"intent_detection.liquid">>,
     calls |-> IF outcome.kind = "load_prompt_with_context raises" THEN <<>>
               ELSE <<"complete">>,
     response |-> outcome.text,
     exception |-> outcome.kind # "complete returns",
     returned |-> IF outcome.kind = "complete returns"
                     /\ (contains(lower(strip(outcome.text)), <<"k", "y", "c">>)
                         \/ contains(lower(strip(outcome.text)),
                                     <<"w", "o", "r", "k", "f", "l", "o", "w">>))
                  THEN "kyc_workflow" ELSE "normal_chat"]

\* A detection that lets the error of its model call out.
detect_intent_propagates(user_input, outcome) ==
    IF outcome.kind # "complete returns" /\ strip(user_input) # <<>>
    THEN [detect_intent_unguarded(user_input, outcome) EXCEPT !.returned = "raised"]
    ELSE IF strip(user_input) = <<>>
    THEN [NotDetected EXCEPT !.user_input = user_input, !.returned = "normal_chat"]
    ELSE detect_intent_unguarded(user_input, outcome)

\* A detection that matches the model's answer as it came, without lower().
detect_intent_case_sensitive(user_input, outcome) ==
    IF strip(user_input) = <<>>
    THEN [NotDetected EXCEPT !.user_input = user_input, !.returned = "normal_chat"]
    ELSE [detect_intent_unguarded(user_input, outcome) EXCEPT
             !.returned = IF outcome.kind = "complete returns"
                             /\ (contains(strip(outcome.text), <<"k", "y", "c">>)
                                 \/ contains(strip(outcome.text),
                                     <<"w", "o", "r", "k", "f", "l", "o", "w">>))
                          THEN "kyc_workflow" ELSE "normal_chat"]

\* _detect_intent(user_input): what it did and what it returned, given what
\* happens inside its try block.
detect_intent(user_input, outcome) ==
    IF user_input = <<>> \/ strip(user_input) = <<>>
    THEN [user_input |-> user_input, prompts |-> <<>>, calls |-> <<>>,
          response |-> <<>>, exception |-> FALSE, returned |-> "normal_chat"]
    ELSE IF outcome.kind = "load_prompt_with_context raises"
    THEN [user_input |-> user_input, prompts |-> <<"intent_detection.liquid">>,
          calls |-> <<>>, response |-> <<>>, exception |-> TRUE,
          returned |-> "normal_chat"]
    ELSE IF outcome.kind = "complete raises"
    THEN [user_input |-> user_input, prompts |-> <<"intent_detection.liquid">>,
          calls |-> <<"complete">>, response |-> <<>>, exception |-> TRUE,
          returned |-> "normal_chat"]
    ELSE \* intent = str(response).strip().lower()
         [user_input |-> user_input, prompts |-> <<"intent_detection.liquid">>,
          calls |-> <<"complete">>, response |-> outcome.text,
          exception |-> FALSE,
          returned |-> IF \/ contains(lower(strip(outcome.text)), <<"k", "y", "c">>)
                          \/ contains(lower(strip(outcome.text)),
                                      <<"w", "o", "r", "k", "f", "l", "o", "w">>)
                       THEN "kyc_workflow" ELSE "normal_chat"]

\* A ChatMessage in memory; call is the number of the call that put it.
ChatMessage(role, content, call) == [role |-> role, content |-> content, call |-> call]

\* The state of a call that has just been entered and has yielded out.
enter(msg, out) ==
    /\ turn' = turn + 1
    /\ message' = msg
    /\ yielded' = out
    /\ consumed' = 0
    /\ full_response_parts' = <<>>
    /\ fallback_result' = <<>>
    /\ workflow' = 0

\* agent._detect_intent(user_input), called on its own.
classify ==
    /\ apc = "idle"
    /\ turn < MaxMessages
    /\ \E user_input \in Messages, outcome \in DetectOutcomes :
        /\ enter(user_input, <<>>)
        /\ detect' = detect_intent(user_input, outcome)
    /\ intent' = "none"
    /\ trace' = <<>>
    /\ last' = "_detect_intent"
    /\ UNCHANGED <<apc, customer_id, memory, kyc_workflow, created>>
    /\ UNCHANGED <<workflow_vars, llm, parser_vars, session_vars, bridge_vars>>

\* What the agent yields for a blank message and for a failure of the chat
\* engine.
InvalidMessage == <<"Please provide a valid message.">>

ChatError == <<"An error occurred while processing your message: ">>

\* agent.astream_chat(message), up to the detection of the intent: a blank
\* message is answered at once.
astream_chat ==
    /\ apc = "idle"
    /\ turn < MaxMessages
    /\ \E msg \in Messages :
        IF msg = <<>> \/ strip(msg) = <<>>
        THEN /\ enter(msg, <<InvalidMessage>>)
             /\ detect' = NotDetected
             /\ intent' = "none"
             /\ trace' = <<"yield">>
             /\ apc' = "idle"
        ELSE /\ enter(msg, <<>>)
             /\ \E outcome \in RoutedOutcomes :
                    detect' = detect_intent(msg, outcome)
             /\ intent' = detect'.returned
             /\ trace' = <<>>
             /\ apc' = "route"
    /\ last' = "astream_chat"
    /\ UNCHANGED <<customer_id, memory, kyc_workflow, created>>
    /\ UNCHANGED <<workflow_vars, llm, parser_vars, session_vars, bridge_vars>>

\* A routing that goes on to the workflow without storing the user's message.
route_kyc_late ==
    /\ apc = "route"
    /\ intent = "kyc_workflow"
    /\ apc' = "kyc"
    /\ trace' = trace
    /\ last' = "route"
    /\ UNCHANGED <<workflow, customer_id, memory, kyc_workflow, created, turn, message,
                   intent, detect, yielded, consumed, full_response_parts,
                   fallback_result>>
    /\ UNCHANGED <<workflow_vars, llm, parser_vars, session_vars, bridge_vars>>

\* if intent == "kyc_workflow": the user's message is put into memory.
route_kyc ==
    /\ apc = "route"
    /\ intent = "kyc_workflow"
    /\ memory' = Append(memory, ChatMessage("user", message, turn))
    /\ trace' = Append(trace, "put user")
    /\ apc' = "kyc"
    /\ last' = "route"
    /\ UNCHANGED <<workflow, customer_id, kyc_workflow, created, turn, message, intent,
                   detect, yielded, consumed, full_response_parts,
                   fallback_result>>
    /\ UNCHANGED <<workflow_vars, llm, parser_vars, session_vars, bridge_vars>>

\* What chatbot.astream_chat may do with a message: the tokens the engine's
\* stream gives, or the failure of the engine.
ChatReplies ==
    {[tokens |-> <<<<"A stock is">>, <<>>, <<" a share">>>>, raises |-> FALSE],
     [tokens |-> <<>>, raises |-> FALSE],
     [tokens |-> <<>>, raises |-> TRUE]}

\* The messages the chat engine writes into its memory while it answers: the
\* user's message and, when its stream has ended, the answer.
chat_engine_writes(msg, reply, call) ==
    IF reply.raises THEN <<>>
    ELSE <<ChatMessage("user", msg, call),
           ChatMessage("assistant", join(reply.tokens), call)>>

\* else: chatbot.astream_chat(message) answers.
route_chat ==
    /\ apc = "route"
    /\ intent # "kyc_workflow"
    /\ \E reply \in ChatReplies :
        /\ yielded' = IF reply.raises THEN <<ChatError>>
                      ELSE SelectSeq(reply.tokens, LAMBDA token : token # <<>>)
        /\ memory' = memory \o chat_engine_writes(message, reply, turn)
        /\ trace' = Append(trace, "chat")
    /\ apc' = "idle"
    /\ last' = "chat"
    /\ UNCHANGED <<workflow, customer_id, kyc_workflow, created, turn, message, intent,
                   detect, consumed, full_response_parts, fallback_result>>
    /\ UNCHANGED <<workflow_vars, llm, parser_vars, session_vars, bridge_vars>>

\* An agent that creates a workflow for every message routed to it.
engine_always_new == [kyc_workflow |-> created + 1, created |-> created + 1]

\* if self.kyc_workflow is None: self.kyc_workflow = KYCWorkflow(...)
engine ==
    IF kyc_workflow = 0
    THEN [kyc_workflow |-> created + 1, created |-> created + 1]
    ELSE [kyc_workflow |-> kyc_workflow, created |-> created]

\* _stream_kyc_workflow_async(user_input), up to the loop over the events:
\* the workflow is created if there is none, and the run is started.
stream_kyc_workflow_async ==
    /\ apc = "kyc"
    /\ kyc_workflow' = engine.kyc_workflow
    /\ created' = engine.created
    /\ workflow' = engine.kyc_workflow
    /\ start_run(message, customer_id)
    /\ consumed' = 0
    /\ full_response_parts' = <<>>
    /\ fallback_result' = <<>>
    /\ trace' = Append(trace, "run")
    /\ apc' = "events"
    /\ last' = "run"
    /\ UNCHANGED <<customer_id, memory, turn, message, intent, detect, yielded>>
    /\ UNCHANGED <<llm, parser_vars, session_vars, bridge_vars>>

\* event.result.get("recommendation", "") of a StopEvent.
recommendation_of(result) ==
    IF "recommendation" \in DOMAIN result THEN result.recommendation ELSE <<>>

\* A reading of the events that relays the chunks with text only and leaves
\* out the chunks of the completion events.
stream_event_skips_completion ==
    /\ apc = "events"
    /\ consumed < Len(events)
    /\ \E event \in {events[consumed + 1]} :
        IF event.type = "StreamingChunkEvent"
        THEN IF event.chunk # <<>> /\ ~event.is_complete
             THEN /\ full_response_parts' = Append(full_response_parts, event.chunk)
                  /\ yielded' = Append(yielded, event.chunk)
                  /\ trace' = Append(trace, "yield")
                  /\ UNCHANGED fallback_result
             ELSE UNCHANGED <<full_response_parts, yielded, trace, fallback_result>>
        ELSE IF event.type = "StopEvent" /\ full_response_parts = <<>>
        THEN /\ fallback_result' =
                    IF recommendation_of(event.result) # <<>>
                    THEN recommendation_of(event.result) ELSE fallback_result
             /\ UNCHANGED <<full_response_parts, yielded, trace>>
        ELSE UNCHANGED <<full_response_parts, yielded, trace, fallback_result>>
    /\ consumed' = consumed + 1
    /\ last' = "event"
    /\ UNCHANGED <<workflow, customer_id, memory, kyc_workflow, created, apc, turn, message,
                   intent, detect>>
    /\ UNCHANGED <<workflow_vars, llm, parser_vars, session_vars, bridge_vars>>

\* A reading of the events that takes the recommendation of the StopEvent as
\* the fallback whether or not chunks were collected.
stream_event_fallback_always ==
    /\ apc = "events"
    /\ consumed < Len(events)
    /\ \E event \in {events[consumed + 1]} :
        IF event.type = "StreamingChunkEvent"
        THEN IF event.chunk # <<>>
             THEN /\ full_response_parts' = Append(full_response_parts, event.chunk)
                  /\ yielded' = Append(yielded, event.chunk)
                  /\ trace' = Append(trace, "yield")
                  /\ UNCHANGED fallback_result
             ELSE UNCHANGED <<full_response_parts, yielded, trace, fallback_result>>
        ELSE IF event.type = "StopEvent"
        THEN /\ fallback_result' =
                    IF recommendation_of(event.result) # <<>>
                    THEN recommendation_of(event.result) ELSE fallback_result
             /\ UNCHANGED <<full_response_parts, yielded, trace>>
        ELSE UNCHANGED <<full_response_parts, yielded, trace, fallback_result>>
    /\ consumed' = consumed + 1
    /\ last' = "event"
    /\ UNCHANGED <<workflow, customer_id, memory, kyc_workflow, created, apc, turn, message,
                   intent, detect>>
    /\ UNCHANGED <<workflow_vars, llm, parser_vars, session_vars, bridge_vars>>

\* async for event in handler.stream_events(): the next event of the run.
stream_event ==
    /\ apc = "events"
    /\ consumed < Len(events)
    /\ \E event \in {events[consumed + 1]} :
        IF event.type = "StreamingChunkEvent"
        THEN IF event.chunk # <<>>
             THEN /\ full_response_parts' = Append(full_response_parts, event.chunk)
                  /\ yielded' = Append(yielded, event.chunk)
                  /\ trace' = Append(trace, "yield")
                  /\ UNCHANGED fallback_result
             ELSE UNCHANGED <<full_response_parts, yielded, trace, fallback_result>>
        ELSE IF event.type = "StopEvent" /\ full_response_parts = <<>>
        THEN /\ fallback_result' =
                    IF recommendation_of(event.result) # <<>>
                    THEN recommendation_of(event.result) ELSE fallback_result
             /\ UNCHANGED <<full_response_parts, yielded, trace>>
        ELSE UNCHANGED <<full_response_parts, yielded, trace, fallback_result>>
    /\ consumed' = consumed + 1
    /\ last' = "event"
    /\ UNCHANGED <<workflow, customer_id, memory, kyc_workflow, created, apc, turn, message,
                   intent, detect>>
    /\ UNCHANGED <<workflow_vars, llm, parser_vars, session_vars, bridge_vars>>

\* The event stream has ended: a fallback result is yielded when no chunk was.
stream_events_end ==
    /\ apc = "events"
    /\ consumed = Len(events)
    /\ pc = "done"
    /\ IF fallback_result # <<>> /\ full_response_parts = <<>>
       THEN /\ yielded' = Append(yielded, fallback_result)
            /\ full_response_parts' = Append(full_response_parts, fallback_result)
            /\ trace' = Append(trace, "yield")
       ELSE UNCHANGED <<yielded, full_response_parts, trace>>
    /\ apc' = "save"
    /\ last' = "events end"
    /\ UNCHANGED <<workflow, customer_id, memory, kyc_workflow, created, turn, message,
                   intent, detect, consumed, fallback_result>>
    /\ UNCHANGED <<workflow_vars, llm, parser_vars, session_vars, bridge_vars>>

\* if full_response: the response is stored when it is not empty.
full_response_saved(full_response) == full_response # <<>>

\* Save full response to memory.
save_full_response ==
    /\ apc = "save"
    /\ \E full_response \in {IF full_response_parts # <<>>
                              THEN join(full_response_parts)
                              ELSE fallback_result} :
        IF full_response_saved(full_response)
        THEN /\ memory' = Append(memory, ChatMessage("assistant", full_response, turn))
             /\ trace' = Append(trace, "put assistant")
        ELSE UNCHANGED <<memory, trace>>
    /\ apc' = "idle"
    /\ last' = "save"
    /\ UNCHANGED <<workflow, customer_id, kyc_workflow, created, turn, message, intent,
                   detect, yielded, consumed, full_response_parts,
                   fallback_result>>
    /\ UNCHANGED <<workflow_vars, llm, parser_vars, session_vars, bridge_vars>>

\* A reset that also cancels the run in flight and ends the call that reads it.
reset_cancels_run ==
    /\ memory' = <<>>
    /\ kyc_workflow' = 0
    /\ last' = "reset"
    /\ pc' = IF pc \in {"ready", "streaming"} THEN "idle" ELSE pc
    /\ apc' = IF apc \in {"events", "save"} THEN "idle" ELSE apc
    /\ workflow' = 0
    /\ UNCHANGED <<customer_id, created, turn, message, intent, detect,
                   yielded, consumed, full_response_parts, fallback_result, trace>>
    /\ UNCHANGED <<ev, response_text, events, delivered, stream_status, log>>
    /\ UNCHANGED <<llm, parser_vars, session_vars, bridge_vars>>

\* A reset that clears the memory and keeps the workflow.
reset_state_keeps_workflow == [memory |-> <<>>, kyc_workflow |-> kyc_workflow]

\* reset(): chatbot.reset() and self.kyc_workflow = None.
reset_state == [memory |-> <<>>, kyc_workflow |-> 0]

reset ==
    /\ memory' = reset_state.memory
    /\ kyc_workflow' = reset_state.kyc_workflow
    /\ last' = "reset"
    /\ UNCHANGED <<workflow, customer_id, created, apc, turn, message, intent, detect,
                   yielded, consumed, full_response_parts, fallback_result, trace>>
    /\ UNCHANGED <<workflow_vars, llm, parser_vars, session_vars, bridge_vars>>

\* get_chat_history(): the role and the content of every message in memory.
get_chat_history == [i \in 1..Len(memory) |->
                        [role |-> memory[i].role, content |-> memory[i].content]]

\* A session: an agent answers one message after another, and may be reset at
\* any time; the workflow runs when the agent starts it.
AgentInit ==
    /\ workflow_init
    /\ llm \in LLMs \ {"any"}
    /\ agent_init /\ customer_id # Null
    /\ parser_init
    /\ session_init
    /\ bridge_init

Agent ==
    \/ classify
    \/ astream_chat
    \/ route_kyc
    \/ route_chat
    \/ stream_kyc_workflow_async
    \/ stream_event
    \/ stream_events_end
    \/ save_full_response
    \/ reset

AgentNext == Agent \/ Workflow

AgentSpec == AgentInit /\ [][AgentNext]_vars

\* The event loop goes on with the workflow's steps and with the coroutine
\* that reads the run's events, whenever one of them can go on.
FairAgentSpec ==
    /\ AgentSpec
    /\ WF_vars(Workflow)
    /\ WF_vars(stream_event \/ stream_events_end \/ save_full_response)

-----------------------------------------------------------------------------
(* Claims about the agent *)

\* A string with nothing but whitespace in it; the empty string is one.
Blank(s) == \A i \in 1..Len(s) : s[i] \in Space

\* _detect_intent has been called and has come back.
Detected == detect.returned # "none"

\* C12: _detect_intent returns "normal_chat" for the empty string and for every
\* whitespace-only string, and then it has rendered no prompt and called no
\* model.
C12_BlankIsNormalChat ==
    (Detected /\ Blank(detect.user_input)) =>
        /\ detect.returned = "normal_chat"
        /\ detect.prompts = <<>>
        /\ detect.calls = <<>>

C12_Witness ==
    /\ last = "_detect_intent"
    /\ detect.user_input = <<" ", "\n">>
    /\ detect.returned = "normal_chat"
    /\ detect.calls = <<>>

\* The entries of the call's trace.
Did(what) == \E i \in 1..Len(trace) : trace[i] = what

\* C13: when the rendering of the prompt or the model call of _detect_intent
\* raises, _detect_intent returns "normal_chat" and raises nothing, and
\* astream_chat hands the message to the chat engine: the workflow is not
\* run for it, and the call ends with what the chat engine answered.
C13_ErrorFallsBackToChat ==
    (Detected /\ detect.exception) =>
        /\ detect.returned = "normal_chat"
        /\ intent \in {"none", "normal_chat"}
        /\ ~Did("run") /\ ~Did("put user")
        /\ intent = "normal_chat" =>
              \/ apc = "route" /\ ENABLED route_chat
              \/ apc = "idle" /\ trace = <<"chat">>

C13_Witness ==
    /\ detect.exception
    /\ detect.calls = <<"complete">>
    /\ intent = "normal_chat"
    /\ apc = "idle"
    /\ trace = <<"chat">>
    /\ yielded = <<<<"A stock is">>, <<" a share">>>>

\* The model's answer, trimmed and lower-cased, names the KYC workflow.
NamesWorkflow(text) ==
    \/ contains(lower(strip(text)), <<"k", "y", "c">>)
    \/ contains(lower(strip(text)), <<"w", "o", "r", "k", "f", "l", "o", "w">>)

Turns(role, call) == SelectSeq(memory, LAMBDA m : m.role = role /\ m.call = call)

\* C18: on a message routed to the workflow the first thing the call does is
\* to put the user's message, as it came, into memory: before the run is
\* started, before anything is yielded and before the assistant's message is
\* put. In memory the user's message of a call stands before the assistant's
\* message of the same call.
C18_UserTurnFirst ==
    /\ (intent = "kyc_workflow" /\ (Did("run") \/ Did("yield") \/ Did("put assistant"))) =>
            Head(trace) = "put user"
    /\ intent = "kyc_workflow" =>
            \A i \in 1..Len(memory) :
                (memory[i].role = "user" /\ memory[i].call = turn) =>
                    memory[i].content = message
    /\ \A i, j \in 1..Len(memory) :
            (/\ memory[i].call = memory[j].call
             /\ memory[i].role = "user"
             /\ memory[j].role = "assistant") => i < j

C18_Witness ==
    /\ intent = "kyc_workflow"
    /\ apc = "idle"
    /\ Head(trace) = "put user"
    /\ Did("run") /\ Did("yield") /\ Did("put assistant")
    /\ Len(memory) = 2
    /\ memory[1] = ChatMessage("user", message, turn)
    /\ memory[2].role = "assistant" /\ memory[2].call = turn

\* A call routed to the workflow has just ended.
KYCCallEnded == intent = "kyc_workflow" /\ apc = "idle" /\ last = "save"

\* The Result the run of the call ended with.
Result == events[Len(events)].result

\* C19: when a call routed to the workflow has ended, it has put exactly one
\* assistant message into memory, the last one there; its content is what the
\* call yielded, concatenated in order, or the recommendation of the Result
\* when the call relayed no chunk.
C19_OneAssistantTurn ==
    KYCCallEnded =>
        /\ Len(Turns("assistant", turn)) = 1
        /\ memory[Len(memory)] =
              ChatMessage("assistant",
                          IF \E i \in 1..Len(events) :
                                /\ events[i].type = "StreamingChunkEvent"
                                /\ events[i].chunk # <<>>
                          THEN join(yielded) ELSE recommendation_of(Result),
                          turn)

\* Where the run did emit chunks the assistant's message is as the claim says.
C19_Witness ==
    /\ KYCCallEnded
    /\ Len(yielded) >= 8
    /\ memory = <<ChatMessage("user", message, turn),
                  ChatMessage("assistant", join(yielded), turn)>>

\* C20: right after reset() the history is empty and the agent holds no
\* workflow; and an agent that holds no workflow gets a workflow that was
\* never created before when its next message is routed to the workflow.
C20_ResetForgets ==
    /\ [](last = "reset" => (get_chat_history = <<>> /\ kyc_workflow = 0))
    /\ [][(kyc_workflow = 0 /\ kyc_workflow' # 0) =>
             (kyc_workflow' > created /\ created' = kyc_workflow')]_vars

\* A second message is routed to the workflow after a reset: the agent has
\* created a second workflow, and the history starts again with that message.
C20_Witness ==
    /\ last = "run"
    /\ turn = 2
    /\ kyc_workflow = 2
    /\ created = 2
    /\ get_chat_history = <<[role |-> "user", content |-> message]>>

\* A step of reset(): the last thing the agent did is now a reset, and the
\* step was not one of the workflow, which leaves the agent alone.
ResetStep ==
    /\ last' = "reset"
    /\ <<memory, kyc_workflow, last>>' # <<memory, kyc_workflow, last>>

\* The chunks of the run's events that are not empty, in order.
RunChunks ==
    [i \in 1..Len(SelectSeq(events, LAMBDA e : e.type = "StreamingChunkEvent"
                                                /\ e.chunk # <<>>)) |->
        SelectSeq(events, LAMBDA e : e.type = "StreamingChunkEvent"
                                      /\ e.chunk # <<>>)[i].chunk]

\* C21: a reset while a run is in flight leaves the run, the workflow the call
\* started it on and what the call has relayed as they are; a call that reads
\* a run always comes to its end, and by then the run has returned its Result
\* and the call has relayed every chunk of the run; the workflow the reset
\* discarded is only missing for the messages that come after.
C21_ResetKeepsRun ==
    /\ [][ResetStep =>
             UNCHANGED <<workflow_vars, workflow, apc, consumed, yielded,
                         full_response_parts, fallback_result>>]_vars
    /\ [](apc \in {"events", "save"} => workflow # 0)
    /\ []((apc = "save" \/ KYCCallEnded) =>
             (pc = "done" /\ events[Len(events)].type = "StopEvent"
                 /\ yielded = RunChunks))
    /\ (apc = "events" /\ last = "reset") ~> (apc = "idle" /\ pc = "done")

\* A call that was reset after it had started its run has ended: the agent
\* holds no workflow, the memory holds the assistant's message alone, and the
\* call has relayed every chunk of its run.
C21_Witness ==
    /\ KYCCallEnded
    /\ kyc_workflow = 0
    /\ workflow = 1
    /\ Len(yielded) >= 8
    /\ yielded = RunChunks
    /\ memory = <<ChatMessage("assistant", join(yielded), turn)>>

\* A call that was routed, to the workflow or to the chat engine, has ended.
RoutedCallEnded == apc = "idle" /\ last \in {"save", "chat"}

\* C23: a call routed to the workflow or to the chat engine that has ended has
\* yielded at least one text for the user, a fragment of content or the text
\* of an error.
C23_ContentOrError == RoutedCallEnded => yielded # <<>>

\* The chat engine failed and the user got the text of the error.
C23_Witness ==
    /\ RoutedCallEnded
    /\ intent = "normal_chat"
    /\ yielded = <<ChatError>>
    /\ memory = <<>>

\* C28: a step that changes the state of the workflow leaves the chat memory
\* as it is; apart from reset() and the chat engine, the memory changes only
\* by the wrapper's two writes: the user's turn, put while no run is in
\* flight and before the call has a workflow, and the assistant's turn, put
\* when the run is done.
C28_EngineNeverWritesMemory ==
    [][/\ workflow_vars' # workflow_vars => memory' = memory
       /\ (memory' # memory /\ last' \notin {"reset", "chat"}) =>
            \/ /\ last' = "route"
               /\ ~InRun /\ workflow = 0
               /\ memory' = Append(memory, ChatMessage("user", message, turn))
            \/ /\ last' = "save"
               /\ pc = "done"
               /\ memory' = Append(memory,
                                   ChatMessage("assistant", join(yielded), turn))]_vars

\* A call ran the workflow through its four steps and the memory holds the
\* user's turn and the assistant's turn of that call, and nothing else.
C28_Witness ==
    /\ KYCCallEnded
    /\ pc = "done" /\ Len(log) = 4
    /\ Len(memory) = 2
    /\ memory[1].role = "user" /\ memory[2].role = "assistant"
    /\ memory[1].call = turn /\ memory[2].call = turn

\* C39: a finished run whose Result carries a recommendation with text wrote
\* the completion event of step 4 before the Result; the wrapper never takes
\* the recommendation of a Result as its fallback; and a call whose run
\* relayed no chunk has put no assistant turn into the memory.
C39_FallbackNeverTaken ==
    /\ (pc = "done" /\ recommendation_of(Result) # <<>>) =>
           \E i \in 1..(Len(events) - 1) :
               events[i] = CompletionEvent("generate_customer_profile")
    /\ fallback_result = <<>>
    /\ (KYCCallEnded /\ yielded = <<>>) => Turns("assistant", turn) = <<>>

\* A call has ended whose run gave a recommendation with text: the chunks were
\* relayed and stored, the last of them the newline that completes step 4,
\* and no fallback was taken.
C39_Witness ==
    /\ KYCCallEnded
    /\ recommendation_of(Result) # <<>>
    /\ fallback_result = <<>>
    /\ full_response_parts = yielded
    /\ yielded[Len(yielded)] = <<"\n">>
    /\ Turns("assistant", turn) = <<ChatMessage("assistant", join(yielded), turn)>>


\* The chunks with text of the StreamingChunkEvents among the first n events
\* of the run, in order.
ChunksOf(n) ==
    [i \in 1..Len(SelectSeq(SubSeq(events, 1, n),
                            LAMBDA e : e.type = "StreamingChunkEvent" /\ e.chunk # <<>>)) |->
        SelectSeq(SubSeq(events, 1, n),
                  LAMBDA e : e.type = "StreamingChunkEvent" /\ e.chunk # <<>>)[i].chunk]

\* C32: while a call routed to the workflow reads the events of its run, what
\* it has yielded is exactly the chunks with text of the StreamingChunkEvents
\* it has read, completion newlines included, in the order of the events, one
\* yield for each; and when the call has ended it has yielded the chunks of
\* all the events of the run, nothing else.
C32_ChunksRelayedOneToOne ==
    /\ apc = "events" => (consumed <= Len(events) /\ yielded = ChunksOf(consumed))
    /\ (apc = "save" \/ KYCCallEnded) => yielded = ChunksOf(Len(events))

\* The call has read part of the events of a run that is still streaming and
\* has yielded a chunk with text and the newline of a completion event.
C32_Witness ==
    /\ apc = "events" /\ pc = "streaming"
    /\ consumed >= 2 /\ consumed < Len(events)
    /\ Len(yielded) = consumed
    /\ yielded[1] # <<"\n">> /\ yielded[Len(yielded)] = <<"\n">>
    /\ yielded = ChunksOf(consumed)

\* _stream_kyc_workflow_async is entered in this step.
EntersWorkflow == apc = "kyc" /\ apc' = "events"

C38_OnlyMessagesAfterReset ==
    \A c \in 1..MaxMessages :
        \A i \in 1..Len(memory) :
            (memory[i].role = "assistant" /\ memory[i].call = c) =>
                \E j \in 1..(i - 1) :
                    memory[j].role = "user" /\ memory[j].call = c

\* A call that was reset while its run was in flight has ended: the memory
\* the reset had cleared starts with the assistant message of that call, and
\* the user message of the call is gone.
C38_Witness ==
    /\ apc = "idle" /\ last = "save"
    /\ kyc_workflow = 0
    /\ memory # <<>>
    /\ memory[1].role = "assistant" /\ memory[1].call = turn
    /\ Turns("user", turn) = <<>>

-----------------------------------------------------------------------------
(* The response parser on its own (json_util.py) *)

\* How many units a text given to the parser has (a bound of the model).
MaxUnits == 5

\* The units such a text is made of.
Alphabet == {"{", "}", "FENCE", "json", "x", " ", "age:35"}

RECURSIVE TextsOf(_)
TextsOf(n) ==
    IF n = 0 THEN {<<>>}
    ELSE {<<>>} \cup {<<u>> \o t : u \in Alphabet, t \in TextsOf(n - 1)}

\* The dicts that are encoded and parsed back: any of three keys, a number, a
\* plain string, and a string that may hold braces and fences.
DictKeys == <<"age", "city", "q">>

ValuesOf(k) ==
    CASE k = "age" -> {Num(35), Num(17)}
      [] k = "city" -> {Str("Beijing")}
      [] k = "q" -> {Chars(c) : c \in {<<>>, <<"x">>, <<"{">>, <<"}">>,
                                        <<"{", "}">>, <<"}", "{">>,
                                        <<"FENCE">>, <<"FENCE", "x", "FENCE">>}}

Dicts ==
    {[t |-> "dict", d |-> f] :
        f \in UNION {{g \in [K -> UNION {ValuesOf(k) : k \in K}] :
                         \A k \in K : g[k] \in ValuesOf(k)} :
                     K \in SUBSET {DictKeys[i] : i \in 1..Len(DictKeys)}}}

\* json.dumps of one member: the unit that decodes to it, or for a string read
\* unit by unit its key, its content and the closing quote.
member_units(k, v) ==
    IF "chars" \in DOMAIN v
    THEN <<CHOOSE u \in StringKeyUnits : StringKeyOf[u] = k>> \o v.chars \o <<Quote>>
    ELSE <<CHOOSE u \in MemberUnits : MemberOf[u] = [k |-> k, v |-> v]>>

\* json.dumps of the members with the keys i.. of DictKeys, a space between
\* one and the next.
RECURSIVE members_units(_, _)
members_units(d, i) ==
    IF i > Len(DictKeys) THEN <<>>
    ELSE IF DictKeys[i] \in DOMAIN d
    THEN member_units(DictKeys[i], d[DictKeys[i]])
            \o (IF \E j \in (i + 1)..Len(DictKeys) : DictKeys[j] \in DOMAIN d
                THEN <<" ">> ELSE <<>>)
            \o members_units(d, i + 1)
    ELSE members_units(d, i + 1)

\* json.dumps(d).
json_dumps(dict) == <<"{">> \o members_units(dict.d, 1) \o <<"}">>

\* The text wrapped in a fenced block tagged json.
fence(text) == <<"FENCE", "json", "\n">> \o text \o <<"\n", "FENCE">>

\* The texts the parser is called with.
Responses ==
    TextsOf(MaxUnits) \cup {json_dumps(d) : d \in Dicts}
                      \cup {fence(json_dumps(d)) : d \in Dicts}

ParserInit ==
    /\ workflow_init
    /\ llm = "any"
    /\ agent_init /\ customer_id = Null
    /\ response \in Responses
    /\ json_str = <<>>
    /\ extracted = NotExtracted
    /\ session_init
    /\ bridge_init

\* extract_json_from_response(response).
extract ==
    /\ extracted = NotExtracted
    /\ json_str' = json_str_of(response)
    /\ extracted' = extract_json_from_response(response)
    /\ UNCHANGED <<response, workflow_vars, llm, agent_vars, session_vars, bridge_vars>>

ParserNext == extract

ParserSpec == ParserInit /\ [][ParserNext]_vars

\* The parser has been called and has returned or raised.
Extracted == extracted # NotExtracted

StringHolds(dict, u) ==
    \E k \in DOMAIN dict.d :
        /\ "chars" \in DOMAIN dict.d[k]
        /\ \E i \in 1..Len(dict.d[k].chars) : dict.d[k].chars[i] = u

IsJSON(text) ==
    \/ strip(text) \in {<<"null">>, <<"7">>, <<"[]">>}
    \/ /\ Len(strip(text)) >= 2
       /\ Head(strip(text)) = "{"
       /\ strip(text)[Len(strip(text))] = "}"
       /\ object_members(SubSeq(strip(text), 2, Len(strip(text)) - 1), 1).ok

EmptyDict == [t |-> "dict", d |-> <<>>]

\* C16: when the substring the parser selected is not JSON, the parser raises
\* the JSONDecodeError; it returns a value only for a substring that is JSON,
\* and an empty dict only for one that is an empty object.
C16_RaisesOnInvalid ==
    Extracted =>
        /\ ~IsJSON(json_str) => extracted = JSONDecodeError
        /\ extracted.kind = "value" => IsJSON(json_str)
        /\ extracted = [kind |-> "value", value |-> EmptyDict] =>
              /\ Head(json_str) = "{"
              /\ \A i \in 2..(Len(json_str) - 1) : json_str[i] \in Space

\* A text with no JSON in it at all.
C16_Witness ==
    /\ Extracted
    /\ response = <<"x", " ", "x">>
    /\ json_str = <<"x", " ", "x">>
    /\ extracted = JSONDecodeError

\* The first fenced block of a text: whether there is one, and its inner
\* content without the json tag and the white space around it.
HasBlock(text) == \E i, j \in 1..Len(text) : i < j /\ text[i] = "FENCE" /\ text[j] = "FENCE"

BlockContent(text) ==
    LET open == CHOOSE i \in 1..Len(text) :
                    text[i] = "FENCE" /\ \A j \in 1..(i - 1) : text[j] # "FENCE"
        close == CHOOSE i \in (open + 1)..Len(text) :
                    text[i] = "FENCE" /\ \A j \in (open + 1)..(i - 1) : text[j] # "FENCE"
        inner == SubSeq(text, open + 1, close - 1)
    IN  strip(IF inner # <<>> /\ Head(inner) = "json" THEN Tail(inner) ELSE inner)

\* The depth of the braces of text[i..j].
RECURSIVE depth(_, _, _)
depth(text, i, j) ==
    IF j < i THEN 0
    ELSE depth(text, i, j - 1)
            + (IF text[j] = "{" THEN 1 ELSE IF text[j] = "}" THEN -1 ELSE 0)

\* The span from the first opening brace to the brace that matches it: whether
\* there is one, and the span.
FirstBrace(text) == CHOOSE i \in 1..Len(text) : text[i] = "{" /\ \A j \in 1..(i - 1) : text[j] # "{"

Matches(text, j) ==
    /\ j \in FirstBrace(text)..Len(text)
    /\ depth(text, FirstBrace(text), j) = 0
    /\ \A m \in FirstBrace(text)..(j - 1) : depth(text, FirstBrace(text), m) # 0

HasSpan(text) ==
    /\ \E i \in 1..Len(text) : text[i] = "{"
    /\ \E j \in 1..Len(text) : Matches(text, j)

Span(text) == SubSeq(text, FirstBrace(text), CHOOSE j \in 1..Len(text) : Matches(text, j))

\* C17 as the claim states it: the substring parsed is the content of the
\* first fenced block when the text has one, else the span from the first
\* opening brace to its matching brace when there is one, else the whole
\* trimmed text.
C17_FallbackChain ==
    Extracted =>
        json_str = IF HasBlock(response) THEN BlockContent(response)
                   ELSE IF HasSpan(response) THEN Span(response)
                   ELSE strip(response)

\* C17, as it holds: the substring parsed is the content of the first fenced
\* block when the text has one and its content is not empty, and the whole
\* trimmed text when that content is empty; with no fenced block it is the
\* span from the first opening brace to its matching brace when there is one,
\* else the whole trimmed text. Every text has an outcome: a value or the
\* JSONDecodeError.
C17_FallbackChainWithEmptyBlock ==
    Extracted =>
        /\ json_str = IF HasBlock(response) /\ BlockContent(response) # <<>>
                      THEN BlockContent(response)
                      ELSE IF HasBlock(response) THEN strip(response)
                      ELSE IF HasSpan(response) THEN Span(response)
                      ELSE strip(response)
        /\ extracted.kind \in {"value", "JSONDecodeError"}

\* Prose, one object, prose: the object is what the parser returns.
C17_Witness ==
    /\ Extracted
    /\ response = <<"x", "{", "age:35", "}", "x">>
    /\ json_str = <<"{", "age:35", "}">>
    /\ extracted = [kind |-> "value", value |-> [t |-> "dict", d |-> [age |-> Num(35)]]]

-----------------------------------------------------------------------------
(* The socket handlers and their background tasks (api/chat/chat.py) *)

\* How many events come in over all sessions, and how many messages get a
\* task (bounds of the model).
MaxInbound == 3
MaxTasks == 2

\* What a client sends as the data of a "json" event: a dict with a text, a
\* blank text, no text or a number under "data", or no dict at all.
Payloads ==
    {[kind |-> "dict", data |-> Str(<<"I am 35 and live in Beijing">>)],
     [kind |-> "dict", data |-> Str(<<" ", "\n">>)],
     [kind |-> "dict"],
     [kind |-> "dict", data |-> Num(5)],
     [kind |-> "str"]}

\* message = data.get("data", ""), or the AttributeError of .get on a value
\* that is no dict.
message_of(data) ==
    IF data.kind # "dict" THEN Raised("AttributeError")
    ELSE [raised |-> FALSE,
          message |-> IF "data" \in DOMAIN data THEN data.data ELSE Str(<<>>)]

\* not message
falsy(v) == v = Null \/ (v.t = "str" /\ v.s = <<>>) \/ (v.t = "num" /\ v.n = 0)

\* not message or not message.strip(): whether the handler takes the message
\* for blank, or the AttributeError of .strip() on a value that is no string.
blank_check(v) ==
    IF falsy(v) THEN [raised |-> FALSE, blank |-> TRUE]
    ELSE IF v.t # "str" THEN Raised("AttributeError")
    ELSE [raised |-> FALSE, blank |-> strip(v.s) = <<>>]

\* emit(event, payload) inside a handler goes to the session of the request;
\* socketio.emit(event, payload) without a room goes to every client.
Emit(event, type, msg, to) == [event |-> event, type |-> type, message |-> msg, to |-> to]

Greeting == <<"connected, the chat may begin">>
ResetDone == <<"Chat history has been reset.">>
NoSession == <<"No active chat session found.">>

\* KYCAgent(customer_id=session_id)
KYCAgent(session_id) == [customer_id |-> session_id, memory |-> <<>>, kyc_workflow |-> 0]

\* The event that has come in is recorded.
comes_in(event, sid, data) ==
    /\ inbound < MaxInbound
    /\ inbound' = inbound + 1
    /\ handled' = [event |-> event, sid |-> sid, data |-> data]

\* handle_connect(): always a new agent for the session.
handle_connect(sid) ==
    /\ comes_in("connect", sid, Null)
    /\ instances' = Append(instances, KYCAgent(sid))
    /\ kyc_agents' = [kyc_agents EXCEPT ![sid] = Len(instances) + 1]
    /\ emitted' = Append(emitted, Emit("connected", "system", Greeting, sid))
    /\ UNCHANGED tasks
    /\ UNCHANGED <<workflow_vars, llm, agent_vars, parser_vars, bridge_vars>>

\* handle_disconnect(): the session's agent leaves the registry.
handle_disconnect(sid) ==
    /\ comes_in("disconnect", sid, Null)
    /\ kyc_agents' = [kyc_agents EXCEPT ![sid] = 0]
    /\ UNCHANGED <<instances, tasks, emitted>>
    /\ UNCHANGED <<workflow_vars, llm, agent_vars, parser_vars, bridge_vars>>

\* A background task: the thread that runs agent_instance.astream_chat(
\* user_message), or a caller that iterates astream_chat itself.
Task(sid, agent, msg, via) ==
    [sid |-> sid, agent |-> agent, message |-> msg, via |-> via,
     tpc |-> "start", intent |-> "none", calls |-> 0,
     chunks |-> <<>>, yielded |-> <<>>, writes |-> <<>>]

\* The text of a message that is a string.
text_of(v) == IF v.t = "str" THEN v.s ELSE <<>>

\* A handle_json that starts the task before it looks at the message.
handle_json_starts_first(sid, data) ==
    /\ comes_in("json", sid, data)
    /\ LET m == message_of(data)
           b == IF m.raised THEN m ELSE blank_check(m.message)
           known == kyc_agents[sid] # 0
           agent == IF known THEN kyc_agents[sid] ELSE Len(instances) + 1
       IN  IF m.raised \/ b.raised
           THEN /\ emitted' = Append(emitted, Emit("error", "error", <<"AttributeError">>, sid))
                /\ UNCHANGED <<kyc_agents, instances, tasks>>
           ELSE /\ Len(tasks) < MaxTasks
                /\ emitted' = IF b.blank
                              THEN Append(emitted, Emit("error", "error", InvalidMessage, sid))
                              ELSE emitted
                /\ instances' = IF known THEN instances
                                ELSE Append(instances, KYCAgent(sid))
                /\ kyc_agents' = [kyc_agents EXCEPT ![sid] = agent]
                /\ tasks' = Append(tasks, Task(sid, agent, text_of(m.message), "thread"))
    /\ UNCHANGED <<workflow_vars, llm, agent_vars, parser_vars, bridge_vars>>

\* handle_json(data): a blank message is answered with an error at once; a
\* message gets the session's agent, a new one where the session has none,
\* and a background task; an exception is answered with an error.
handle_json(sid, data) ==
    /\ comes_in("json", sid, data)
    /\ LET m == message_of(data)
           b == IF m.raised THEN m ELSE blank_check(m.message)
           known == kyc_agents[sid] # 0
           agent == IF known THEN kyc_agents[sid] ELSE Len(instances) + 1
       IN  IF m.raised \/ b.raised
           THEN /\ emitted' = Append(emitted, Emit("error", "error", <<"AttributeError">>, sid))
                /\ UNCHANGED <<kyc_agents, instances, tasks>>
           ELSE IF b.blank
           THEN /\ emitted' = Append(emitted, Emit("error", "error", InvalidMessage, sid))
                /\ UNCHANGED <<kyc_agents, instances, tasks>>
           ELSE /\ Len(tasks) < MaxTasks
                /\ instances' = IF known THEN instances
                                ELSE Append(instances, KYCAgent(sid))
                /\ kyc_agents' = [kyc_agents EXCEPT ![sid] = agent]
                /\ tasks' = Append(tasks, Task(sid, agent, m.message.s, "thread"))
                /\ UNCHANGED emitted
    /\ UNCHANGED <<workflow_vars, llm, agent_vars, parser_vars, bridge_vars>>

\* A handle_reset that takes the session's agent out of the registry.
handle_reset_unregisters(sid) ==
    /\ comes_in("reset", sid, Null)
    /\ IF kyc_agents[sid] # 0
       THEN /\ instances' = [instances EXCEPT ![kyc_agents[sid]].memory = <<>>,
                                              ![kyc_agents[sid]].kyc_workflow = 0]
            /\ kyc_agents' = [kyc_agents EXCEPT ![sid] = 0]
            /\ emitted' = Append(emitted, Emit("response", "system", ResetDone, sid))
       ELSE /\ emitted' = Append(emitted, Emit("error", "error", NoSession, sid))
            /\ UNCHANGED <<instances, kyc_agents>>
    /\ UNCHANGED tasks
    /\ UNCHANGED <<workflow_vars, llm, agent_vars, parser_vars, bridge_vars>>

\* handle_reset(): the session's agent is reset and the reset confirmed, or
\* the session has no agent and gets an error. (Nothing in reset() raises
\* over the values of the model, so the handler's except block is not taken.)
handle_reset(sid) ==
    /\ comes_in("reset", sid, Null)
    /\ IF kyc_agents[sid] # 0
       THEN /\ instances' = [instances EXCEPT ![kyc_agents[sid]].memory = <<>>,
                                              ![kyc_agents[sid]].kyc_workflow = 0]
            /\ emitted' = Append(emitted, Emit("response", "system", ResetDone, sid))
       ELSE /\ emitted' = Append(emitted, Emit("error", "error", NoSession, sid))
            /\ UNCHANGED instances
    /\ UNCHANGED <<kyc_agents, tasks>>
    /\ UNCHANGED <<workflow_vars, llm, agent_vars, parser_vars, bridge_vars>>

\* A caller that holds the session's agent iterates astream_chat(message)
\* itself, as the tests do.
caller_astream_chat(sid, msg) ==
    /\ kyc_agents[sid] # 0
    /\ Len(tasks) < MaxTasks
    /\ comes_in("astream_chat", sid, Str(msg))
    /\ tasks' = Append(tasks, Task(sid, kyc_agents[sid], msg, "caller"))
    /\ UNCHANGED <<kyc_agents, instances, emitted>>
    /\ UNCHANGED <<workflow_vars, llm, agent_vars, parser_vars, bridge_vars>>

\* What a run of the workflow writes as chunks for the call that reads its
\* events: nothing when every step fails before its stream ends, or text and
\* the chunk that completes a stream.
KYCRuns == {<<>>, <<<<"x">>, <<"\n">>>>}

\* What a call yields once it is routed, and what is put into memory when it
\* has yielded it: the chunks of a run and, if there are any, their
\* concatenation as the assistant's message; or the tokens of the chat engine
\* and the two messages the chat engine keeps.
Outcomes(msg, returned, call) ==
    IF returned = "kyc_workflow"
    THEN {[chunks |-> written,
           writes |-> IF written = <<>> THEN <<>>
                      ELSE <<ChatMessage("assistant", join(written), call)>>] :
             written \in KYCRuns}
    ELSE {[chunks |-> IF reply.raises THEN <<ChatError>>
                      ELSE SelectSeq(reply.tokens, LAMBDA token : token # <<>>),
           writes |-> chat_engine_writes(msg, reply, call)] :
             reply \in ChatReplies}

\* async for chunk in agent_instance.astream_chat(user_message):
\*     socketio.emit("response", {"type": "assistant", "message": chunk})
\* The thread emits what the agent yields, to every client; a caller keeps it.
relayed(i, chunk) ==
    IF tasks[i].via = "thread"
    THEN Append(emitted, Emit("response", "assistant", chunk, "all"))
    ELSE emitted

\* astream_chat(message) is entered: a blank message is answered at once,
\* any other is classified by a call of the model.
thread_astream_chat(i) ==
    /\ tasks[i].tpc = "start"
    /\ IF tasks[i].message = <<>> \/ strip(tasks[i].message) = <<>>
       THEN /\ tasks' = [tasks EXCEPT ![i].tpc = "done",
                                      ![i].yielded = <<InvalidMessage>>]
            /\ emitted' = relayed(i, InvalidMessage)
       ELSE /\ \E returned \in {"kyc_workflow", "normal_chat"} :
                 tasks' = [tasks EXCEPT ![i].tpc = "route",
                                        ![i].intent = returned,
                                        ![i].calls = 1]
            /\ UNCHANGED emitted
    /\ UNCHANGED <<kyc_agents, instances, inbound, handled>>
    /\ UNCHANGED <<workflow_vars, llm, agent_vars, parser_vars, bridge_vars>>

\* The call is routed: to the workflow, after the user's message is put into
\* the memory and the agent has a workflow, or to the chat engine.
thread_route(i) ==
    /\ tasks[i].tpc = "route"
    /\ \E out \in Outcomes(tasks[i].message, tasks[i].intent, i) :
          tasks' = [tasks EXCEPT ![i].tpc = "stream",
                                 ![i].chunks = out.chunks,
                                 ![i].writes = out.writes]
    /\ instances' =
          IF tasks[i].intent = "kyc_workflow"
          THEN [instances EXCEPT
                   ![tasks[i].agent].memory =
                       Append(@, ChatMessage("user", tasks[i].message, i)),
                   ![tasks[i].agent].kyc_workflow = 1]
          ELSE instances
    /\ UNCHANGED <<kyc_agents, emitted, inbound, handled>>
    /\ UNCHANGED <<workflow_vars, llm, agent_vars, parser_vars, bridge_vars>>

\* The call yields its next chunk.
thread_chunk(i) ==
    /\ tasks[i].tpc = "stream"
    /\ tasks[i].chunks # <<>>
    /\ tasks' = [tasks EXCEPT ![i].chunks = Tail(@),
                              ![i].yielded = Append(@, Head(tasks[i].chunks))]
    /\ emitted' = relayed(i, Head(tasks[i].chunks))
    /\ UNCHANGED <<kyc_agents, instances, inbound, handled>>
    /\ UNCHANGED <<workflow_vars, llm, agent_vars, parser_vars, bridge_vars>>

\* The call has yielded everything: the memory gets what the call leaves in
\* it, and the call ends.
thread_ends(i) ==
    /\ tasks[i].tpc = "stream"
    /\ tasks[i].chunks = <<>>
    /\ tasks' = [tasks EXCEPT ![i].tpc = "done"]
    /\ instances' = [instances EXCEPT ![tasks[i].agent].memory = @ \o tasks[i].writes]
    /\ UNCHANGED <<kyc_agents, emitted, inbound, handled>>
    /\ UNCHANGED <<workflow_vars, llm, agent_vars, parser_vars, bridge_vars>>

\* A thread that, when an exception reaches it, also drops the session's agent
\* from the registry.
thread_raises_drops_agent(i) ==
    /\ tasks[i].via = "thread"
    /\ tasks[i].tpc \in {"route", "stream"}
    /\ tasks' = [tasks EXCEPT ![i].tpc = "failed"]
    /\ emitted' = Append(emitted, Emit("error", "error", <<"Exception">>, "all"))
    /\ kyc_agents' = [kyc_agents EXCEPT ![tasks[i].sid] = 0]
    /\ UNCHANGED <<instances, inbound, handled>>
    /\ UNCHANGED <<workflow_vars, llm, agent_vars, parser_vars, bridge_vars>>

\* An exception leaves astream_chat in the thread (memory.put, the creation of
\* the workflow or socketio.emit raises): the thread emits an error and ends.
thread_raises(i) ==
    /\ tasks[i].via = "thread"
    /\ tasks[i].tpc \in {"route", "stream"}
    /\ tasks' = [tasks EXCEPT ![i].tpc = "failed"]
    /\ emitted' = Append(emitted, Emit("error", "error", <<"Exception">>, "all"))
    /\ UNCHANGED <<kyc_agents, instances, inbound, handled>>
    /\ UNCHANGED <<workflow_vars, llm, agent_vars, parser_vars, bridge_vars>>

\* The server: no session has connected, no workflow runs on its own.
SessionInit ==
    /\ workflow_init
    /\ llm = "any"
    /\ agent_init /\ customer_id = Null
    /\ parser_init
    /\ session_init
    /\ bridge_init

Thread ==
    \E i \in 1..Len(tasks) :
        \/ thread_astream_chat(i)
        \/ thread_route(i)
        \/ thread_chunk(i)
        \/ thread_ends(i)
        \/ thread_raises(i)

SessionNext ==
    \/ \E sid \in Sessions :
        \/ handle_connect(sid)
        \/ handle_disconnect(sid)
        \/ \E data \in Payloads : handle_json(sid, data)
        \/ handle_reset(sid)
        \/ \E msg \in Messages : caller_astream_chat(sid, msg)
    \/ Thread

SessionSpec == SessionInit /\ [][SessionNext]_vars

-----------------------------------------------------------------------------
(* The claims about the sessions *)

\* An event comes in in this step; the session it comes from.
ComesIn(event) == inbound' = inbound + 1 /\ handled'.event = event

\* What the handler emits to the session of the request in this step, and
\* nothing else.
Replies(event, type, msg) ==
    emitted' = Append(emitted, Emit(event, type, msg, handled'.sid))

\* The background tasks of the messages of a session are over.
Over(i) == tasks[i].tpc \in {"done", "failed"}

\* C22: of two "json" messages of one session the later one is not processed
\* (not classified, not streamed, not written to memory) before the task of
\* the earlier one is over.
C22_OneAtATime ==
    \A i, j \in 1..Len(tasks) :
        (/\ i < j
         /\ tasks[i].sid = tasks[j].sid
         /\ tasks[i].via = "thread" /\ tasks[j].via = "thread"
         /\ tasks[j].tpc # "start") => Over(i)

\* Two messages of one session were processed one after the other: the memory
\* of the agent holds what the first left and then what the second left.
C22_Witness ==
    /\ Len(tasks) = 2
    /\ tasks[1].sid = tasks[2].sid /\ tasks[1].agent = tasks[2].agent
    /\ tasks[1].via = "thread" /\ tasks[2].via = "thread"
    /\ tasks[1].tpc = "done" /\ tasks[2].tpc = "done"
    /\ tasks[1].intent = "kyc_workflow" /\ tasks[2].intent = "kyc_workflow"
    /\ tasks[1].writes # <<>> /\ tasks[2].writes # <<>>
    /\ instances[tasks[1].agent].memory =
          <<ChatMessage("user", tasks[1].message, 1)>> \o tasks[1].writes
          \o <<ChatMessage("user", tasks[2].message, 2)>> \o tasks[2].writes

\* The data of the "json" event that comes in is a dict whose message is blank.
BlankData(data) ==
    /\ ~message_of(data).raised
    /\ ~blank_check(message_of(data).message).raised
    /\ blank_check(message_of(data).message).blank

BlankMessage(msg) == msg = <<>> \/ strip(msg) = <<>>

\* C24: a "json" event with a blank text is answered with one "error" event
\* to its session and changes nothing else: no task is started (so no call
\* of the model is made for it), no agent is created, and no agent's memory
\* or workflow changes; no task of a thread has a blank message; and
\* astream_chat called with a blank message yields the fixed text only,
\* without a call of the model, without an intent and without touching the
\* agents.
C24_BlankIsRefused ==
    /\ [][(ComesIn("json") /\ BlankData(handled'.data)) =>
             /\ Replies("error", "error", InvalidMessage)
             /\ UNCHANGED <<kyc_agents, instances, tasks>>]_vars
    /\ [](\A i \in 1..Len(tasks) :
             /\ tasks[i].via = "thread" => ~BlankMessage(tasks[i].message)
             /\ (BlankMessage(tasks[i].message) /\ tasks[i].tpc # "start") =>
                    /\ tasks[i].tpc = "done"
                    /\ tasks[i].yielded = <<InvalidMessage>>
                    /\ tasks[i].calls = 0
                    /\ tasks[i].intent = "none"
                    /\ tasks[i].writes = <<>>)
    /\ [][\A i \in 1..Len(tasks) :
             (BlankMessage(tasks[i].message) /\ tasks'[i] # tasks[i]) =>
                 UNCHANGED <<kyc_agents, instances>>]_vars

\* A session without an agent sent a blank text and got the error, and still
\* has no agent; before, a caller got the fixed text for a blank message from
\* the agent of the other session.
C24_Witness ==
    /\ handled.event = "json"
    /\ handled.data = [kind |-> "dict", data |-> Str(<<" ", "\n">>)]
    /\ kyc_agents[handled.sid] = 0
    /\ Len(instances) = 1
    /\ emitted[Len(emitted)] = Emit("error", "error", InvalidMessage, handled.sid)
    /\ Len(tasks) = 1
    /\ tasks[1].via = "caller" /\ tasks[1].message = <<" ">>
    /\ tasks[1].tpc = "done" /\ tasks[1].yielded = <<InvalidMessage>>

\* The data of the "json" event that comes in makes the handler raise.
Malformed(data) ==
    \/ message_of(data).raised
    \/ blank_check(message_of(data).message).raised

\* The thread of task i fails in this step.
Fails(i) == tasks[i].tpc # "failed" /\ tasks'[i].tpc = "failed"

\* C26: a malformed "json" event is answered with one "error" event and
\* changes neither the registry, nor any agent, nor any task; a failure in
\* the thread of a task emits one "error" event, ends that task and changes
\* neither the registry, nor any agent, nor any other task; and a message
\* that comes in later gets a task with the agent the session has.
C26_ErrorsLeaveSessionUsable ==
    /\ [][(ComesIn("json") /\ Malformed(handled'.data)) =>
             /\ Replies("error", "error", <<"AttributeError">>)
             /\ UNCHANGED <<kyc_agents, instances, tasks>>]_vars
    /\ [][\A i \in 1..Len(tasks) : Fails(i) =>
             /\ Len(emitted') = Len(emitted) + 1
             /\ emitted'[Len(emitted')].event = "error"
             /\ SubSeq(emitted', 1, Len(emitted)) = emitted
             /\ UNCHANGED <<kyc_agents, instances>>
             /\ tasks' = [tasks EXCEPT ![i].tpc = "failed"]]_vars
    /\ [][(ComesIn("json") /\ Len(tasks') > Len(tasks) /\ kyc_agents[handled'.sid] # 0) =>
             /\ tasks'[Len(tasks')].agent = kyc_agents[handled'.sid]
             /\ tasks'[Len(tasks')].tpc = "start"
             /\ UNCHANGED <<kyc_agents, instances>>]_vars

\* The thread of a session's first message failed after the user's turn was
\* put into memory; the second message of the session was answered by the same
\* agent, whose memory holds both messages and the answer.
C26_Witness ==
    /\ Len(tasks) = 2
    /\ tasks[1].sid = tasks[2].sid /\ tasks[1].agent = tasks[2].agent
    /\ kyc_agents[tasks[1].sid] = tasks[1].agent
    /\ tasks[1].tpc = "failed" /\ tasks[1].intent = "kyc_workflow"
    /\ tasks[2].tpc = "done" /\ tasks[2].intent = "kyc_workflow"
    /\ tasks[2].yielded = <<<<"x">>, <<"\n">>>>
    /\ instances[tasks[1].agent].memory =
          <<ChatMessage("user", tasks[1].message, 1),
            ChatMessage("user", tasks[2].message, 2)>> \o tasks[2].writes
    /\ \E k \in 1..Len(emitted) : emitted[k].event = "error"

\* C27: a "reset" event of a session that has an agent empties that agent's
\* memory, leaves it without a workflow and is answered with the system
\* confirmation; a "reset" event of a session without an agent is answered
\* with an "error" event and changes no agent. In both cases the registry
\* stays as it is and no other agent and no task changes.
C27_Reset ==
    [][ComesIn("reset") =>
          /\ IF kyc_agents[handled'.sid] # 0
             THEN /\ Len(instances') = Len(instances)
                  /\ \A a \in 1..Len(instances) :
                        instances'[a] =
                            IF a = kyc_agents[handled'.sid]
                            THEN [instances[a] EXCEPT !.memory = <<>>,
                                                      !.kyc_workflow = 0]
                            ELSE instances[a]
                  /\ Replies("response", "system", ResetDone)
             ELSE /\ UNCHANGED instances
                  /\ Replies("error", "error", NoSession)
          /\ UNCHANGED <<kyc_agents, tasks>>]_vars

\* A session's message was answered through the workflow, and the session was
\* reset afterwards: its agent is still registered, with an empty memory and
\* no workflow, and the confirmation was the last event emitted.
C27_Witness ==
    /\ handled.event = "reset"
    /\ Len(tasks) = 1
    /\ tasks[1].sid = handled.sid
    /\ tasks[1].tpc = "done" /\ tasks[1].intent = "kyc_workflow"
    /\ tasks[1].writes # <<>>
    /\ kyc_agents[handled.sid] = tasks[1].agent
    /\ instances[tasks[1].agent] = KYCAgent(handled.sid)
    /\ emitted[Len(emitted)] = Emit("response", "system", ResetDone, handled.sid)

\* C37: every "response" and "error" event goes to one session and to no
\* other, and a chunk of an answer goes to the session whose message it was
\* yielded for.
C37_OwnSessionOnly ==
    \A k \in 1..Len(emitted) :
        emitted[k].event \in {"response", "error"} =>
            /\ emitted[k].to \in Sessions
            /\ emitted[k].type = "assistant" =>
                  \E i \in 1..Len(tasks) :
                      /\ tasks[i].sid = emitted[k].to
                      /\ \E n \in 1..Len(tasks[i].yielded) :
                            tasks[i].yielded[n] = emitted[k].message

\* Two clients are connected and one of them has sent a message: a chunk of
\* its answer has gone out to every client, the other one, which has sent
\* nothing, included.
C37_Witness ==
    \E s1, s2 \in Sessions :
        /\ s1 # s2
        /\ kyc_agents[s1] # 0 /\ kyc_agents[s2] # 0
        /\ \A i \in 1..Len(tasks) : tasks[i].sid = s1
        /\ \E i \in 1..Len(tasks) :
              /\ tasks[i].via = "thread" /\ tasks[i].yielded # <<>>
              /\ emitted[Len(emitted)] =
                    Emit("response", "assistant", tasks[i].yielded[Len(tasks[i].yielded)], "all")

-----------------------------------------------------------------------------
(* The synchronous bridge (kyc_agent.py, _stream_kyc_workflow) *)

\* The most items the wrapped generator yields.
MaxItems == 2

\* What the asynchronous generator may yield: strings, never None.
Items == {<<"a">>, <<"b">>}

\* The generators the bridge may wrap: the items yielded, whether the
\* generator then returns or raises, and whether the thread's event loop runs,
\* cannot be created, or raises when it is closed.
Generators ==
    [items : UNION {[1..n -> Items] : n \in 0..MaxItems},
     ends : {"returns", "raises"},
     loop : {"runs", "new_event_loop raises", "close raises"}]

\* str(e) of the exception of the generator and of the event loop.
GeneratorError == <<"generator failed">>
LoopError == <<"event loop failed">>

\* f"An error occurred: {error_message}"
ErrorItem(text) == <<"An error occurred: ">> \o text

\* "Error: Workflow streaming timed out."
TimedOut == <<"Error: Workflow streaming timed out.">>

\* chunk_queue.put(item)
put(item) ==
    /\ chunk_queue' = Append(chunk_queue, item)
    /\ enqueued' = Append(enqueued, item)

\* _stream_kyc_workflow up to its loop: the queue and the event are created,
\* the thread is started.
thread_start ==
    /\ bridge = "idle"
    /\ bridge' = "get"
    /\ producer' = [producer EXCEPT !.pc = "new_event_loop"]
    /\ UNCHANGED <<generator, chunk_queue, enqueued, error_occurred, error_message,
                   bridge_yielded, expired>>
    /\ UNCHANGED <<workflow_vars, llm, agent_vars, parser_vars, session_vars>>

\* run_async_in_thread: loop = asyncio.new_event_loop(); an exception here
\* goes to the except clause of run_async_in_thread.
new_event_loop ==
    /\ producer.pc = "new_event_loop"
    /\ producer' =
          IF generator.loop = "new_event_loop raises"
          THEN [producer EXCEPT !.pc = "set", !.in = "run_async_in_thread"]
          ELSE [producer EXCEPT !.pc = "consume"]
    /\ UNCHANGED <<generator, chunk_queue, enqueued, error_occurred, error_message,
                   bridge, bridge_yielded, expired>>
    /\ UNCHANGED <<workflow_vars, llm, agent_vars, parser_vars, session_vars>>

\* consume_async_generator: the next chunk of the generator is put on the
\* queue; when the generator returns, None is; when it raises, the except
\* clause of consume_async_generator is entered.
consume_async_generator ==
    /\ producer.pc = "consume"
    /\ IF producer.n < Len(generator.items)
       THEN /\ put(Str(generator.items[producer.n + 1]))
            /\ producer' = [producer EXCEPT !.n = @ + 1]
       ELSE IF generator.ends = "returns"
       THEN /\ put(Null)
            /\ producer' = [producer EXCEPT !.pc = "close"]
       ELSE /\ producer' = [producer EXCEPT !.pc = "set",
                                            !.in = "consume_async_generator"]
            /\ UNCHANGED <<chunk_queue, enqueued>>
    /\ UNCHANGED <<generator, error_occurred, error_message, bridge, bridge_yielded,
                   expired>>
    /\ UNCHANGED <<workflow_vars, llm, agent_vars, parser_vars, session_vars>>

\* except Exception: error_occurred.set()
except_set ==
    /\ producer.pc = "set"
    /\ error_occurred' = TRUE
    /\ producer' = [producer EXCEPT !.pc = "message"]
    /\ UNCHANGED <<generator, chunk_queue, enqueued, error_message, bridge,
                   bridge_yielded, expired>>
    /\ UNCHANGED <<workflow_vars, llm, agent_vars, parser_vars, session_vars>>

\* error_message = str(e)
except_message ==
    /\ producer.pc = "message"
    /\ error_message' = IF producer.in = "consume_async_generator"
                        THEN GeneratorError ELSE LoopError
    /\ producer' = [producer EXCEPT !.pc = "put"]
    /\ UNCHANGED <<generator, chunk_queue, enqueued, error_occurred, bridge,
                   bridge_yielded, expired>>
    /\ UNCHANGED <<workflow_vars, llm, agent_vars, parser_vars, session_vars>>

\* An except clause that ends without chunk_queue.put(None).
except_put_forgets_sentinel ==
    /\ producer.pc = "put"
    /\ producer' = [producer EXCEPT !.pc = IF producer.in = "consume_async_generator"
                                           THEN "close" ELSE "done"]
    /\ UNCHANGED <<generator, chunk_queue, enqueued, error_occurred, error_message,
                   bridge, bridge_yielded, expired>>
    /\ UNCHANGED <<workflow_vars, llm, agent_vars, parser_vars, session_vars>>

\* chunk_queue.put(None), the last statement of both except clauses: after
\* that of consume_async_generator the loop is closed, after that of
\* run_async_in_thread the thread ends.
except_put ==
    /\ producer.pc = "put"
    /\ put(Null)
    /\ producer' = [producer EXCEPT !.pc = IF producer.in = "consume_async_generator"
                                           THEN "close" ELSE "done"]
    /\ UNCHANGED <<generator, error_occurred, error_message, bridge, bridge_yielded,
                   expired>>
    /\ UNCHANGED <<workflow_vars, llm, agent_vars, parser_vars, session_vars>>

\* finally: loop.close(); asyncio.set_event_loop(None). An exception here goes
\* to the except clause of run_async_in_thread.
loop_close ==
    /\ producer.pc = "close"
    /\ producer' =
          IF generator.loop = "close raises"
          THEN [producer EXCEPT !.pc = "set", !.in = "run_async_in_thread"]
          ELSE [producer EXCEPT !.pc = "done"]
    /\ UNCHANGED <<generator, chunk_queue, enqueued, error_occurred, error_message,
                   bridge, bridge_yielded, expired>>
    /\ UNCHANGED <<workflow_vars, llm, agent_vars, parser_vars, session_vars>>

\* A bridge that takes the item put last.
chunk_queue_get_last ==
    /\ bridge = "get"
    /\ chunk_queue # <<>>
    /\ LET chunk == chunk_queue[Len(chunk_queue)]
       IN  /\ chunk_queue' = SubSeq(chunk_queue, 1, Len(chunk_queue) - 1)
           /\ IF chunk = Null
              THEN bridge' = "join" /\ UNCHANGED bridge_yielded
              ELSE bridge' = "get" /\ bridge_yielded' = Append(bridge_yielded, chunk.s)
    /\ UNCHANGED <<generator, enqueued, error_occurred, error_message, producer,
                   expired>>
    /\ UNCHANGED <<workflow_vars, llm, agent_vars, parser_vars, session_vars>>

\* chunk = chunk_queue.get(timeout=300) with an item on the queue: None ends
\* the loop, any other item is yielded.
chunk_queue_get ==
    /\ bridge = "get"
    /\ chunk_queue # <<>>
    /\ LET chunk == Head(chunk_queue)
       IN  /\ chunk_queue' = Tail(chunk_queue)
           /\ IF chunk = Null
              THEN bridge' = "join" /\ UNCHANGED bridge_yielded
              ELSE bridge' = "get" /\ bridge_yielded' = Append(bridge_yielded, chunk.s)
    /\ UNCHANGED <<generator, enqueued, error_occurred, error_message, producer,
                   expired>>
    /\ UNCHANGED <<workflow_vars, llm, agent_vars, parser_vars, session_vars>>

\* except queue.Empty: the queue has stayed empty for 300 seconds; the bridge
\* yields the timeout text and leaves the loop.
queue_Empty ==
    /\ bridge = "get"
    /\ chunk_queue = <<>>
    /\ bridge_yielded' = Append(bridge_yielded, TimedOut)
    /\ bridge' = "join"
    /\ expired' = expired \cup {"get"}
    /\ UNCHANGED <<generator, chunk_queue, enqueued, error_occurred, error_message,
                   producer>>
    /\ UNCHANGED <<workflow_vars, llm, agent_vars, parser_vars, session_vars>>

\* thread.join(timeout=1) returns because the thread has ended.
thread_join ==
    /\ bridge = "join"
    /\ producer.pc = "done"
    /\ bridge' = "check"
    /\ UNCHANGED <<generator, chunk_queue, enqueued, error_occurred, error_message,
                   producer, bridge_yielded, expired>>
    /\ UNCHANGED <<workflow_vars, llm, agent_vars, parser_vars, session_vars>>

\* thread.join(timeout=1) returns after a second, the thread still running.
thread_join_timeout ==
    /\ bridge = "join"
    /\ producer.pc # "done"
    /\ bridge' = "check"
    /\ expired' = expired \cup {"join"}
    /\ UNCHANGED <<generator, chunk_queue, enqueued, error_occurred, error_message,
                   producer, bridge_yielded>>
    /\ UNCHANGED <<workflow_vars, llm, agent_vars, parser_vars, session_vars>>

\* if error_occurred.is_set(): yield f"An error occurred: {error_message}"
error_check ==
    /\ bridge = "check"
    /\ bridge' = "done"
    /\ bridge_yielded' = IF error_occurred
                         THEN Append(bridge_yielded, ErrorItem(error_message))
                         ELSE bridge_yielded
    /\ UNCHANGED <<generator, chunk_queue, enqueued, error_occurred, error_message,
                   producer, expired>>
    /\ UNCHANGED <<workflow_vars, llm, agent_vars, parser_vars, session_vars>>

\* A call of the bridge on any of the generators.
BridgeInit ==
    /\ workflow_init
    /\ llm = "any"
    /\ agent_init /\ customer_id = Null
    /\ parser_init
    /\ session_init
    /\ generator \in Generators
    /\ bridge_locals

\* The steps of the background thread.
run_async_in_thread ==
    \/ new_event_loop
    \/ consume_async_generator
    \/ except_set
    \/ except_message
    \/ except_put
    \/ loop_close

\* The steps of the bridge that wait for no timer.
stream_kyc_workflow ==
    \/ thread_start
    \/ chunk_queue_get
    \/ thread_join
    \/ error_check

BridgeNext ==
    \/ run_async_in_thread
    \/ stream_kyc_workflow
    \/ queue_Empty
    \/ thread_join_timeout

BridgeSpec == BridgeInit /\ [][BridgeNext]_vars

\* The thread is scheduled until it ends, and the caller iterates the bridge
\* to its end (stream_chat does, with yield from).
FairBridgeSpec ==
    BridgeSpec /\ WF_vars(run_async_in_thread) /\ WF_vars(stream_kyc_workflow)

-----------------------------------------------------------------------------
(* The claims about the bridge *)

\* The items the generator yields before it ends: none when the event loop
\* that would run it cannot be created.
Produced ==
    IF generator.loop = "new_event_loop raises" THEN <<>> ELSE generator.items

\* What the thread reports last: the failure of the event loop, else that of
\* the generator, else nothing.
Reported ==
    IF generator.loop # "runs" THEN <<ErrorItem(LoopError)>>
    ELSE IF generator.ends = "raises" THEN <<ErrorItem(GeneratorError)>>
    ELSE <<>>

\* The thread puts no chunk after a None; while the bridge is in its loop,
\* what it has yielded followed by what is on the queue is what was put, in
\* the order it was put.
InOrder ==
    /\ \A i, j \in 1..Len(enqueued) :
          (i < j /\ enqueued[i] = Null) => enqueued[j] = Null
    /\ bridge = "get" =>
          [i \in 1..Len(bridge_yielded) |-> Str(bridge_yielded[i])] \o chunk_queue
              = enqueued

\* C35: the bridge yields the generator's items in order, each once, stops at
\* the first None, and ends with the items the generator produced followed by
\* one item for the error the thread reported, if it reported one.
C35_YieldsExactlyTheItems ==
    /\ InOrder
    /\ bridge = "done" => bridge_yielded = Produced \o Reported

\* C35 as it holds: the same, for the calls in which neither the wait on the
\* queue nor the wait for the thread has timed out.
C35_YieldsTheItemsUnlessTimedOut ==
    /\ InOrder
    /\ (bridge = "done" /\ expired = {}) => bridge_yielded = Produced \o Reported

\* The generator yielded two different chunks and raised, no timer expired:
\* the bridge has yielded the two in order and then the error.
C35_Witness ==
    /\ bridge = "done" /\ expired = {}
    /\ generator.ends = "raises" /\ generator.loop = "runs"
    /\ Len(bridge_yielded) = 3
    /\ bridge_yielded[1] # bridge_yielded[2]
    /\ bridge_yielded =
          Append(generator.items, <<"An error occurred: ", "generator failed">>)

\* C36: a thread that has ended has put None on the queue whatever its path,
\* so a bridge in its loop finds an item on the queue once the thread has
\* ended, and every call of the bridge comes to its end.
C36_BridgeTerminates ==
    /\ [](producer.pc = "done" => \E i \in 1..Len(enqueued) : enqueued[i] = Null)
    /\ []((bridge = "get" /\ producer.pc = "done") => chunk_queue # <<>>)
    /\ (bridge = "get") ~> (bridge = "done")

\* The generator raised and closing the loop raised as well: the thread has
\* put None twice, the bridge stopped at the first and has ended, no timer
\* having expired.
C36_Witness ==
    /\ bridge = "done" /\ expired = {}
    /\ generator.ends = "raises" /\ generator.loop = "close raises"
    /\ producer.pc = "done"
    /\ Len(SelectSeq(enqueued, LAMBDA item : item = Null)) = 2
    /\ chunk_queue = <<Null>>

====
